---- MODULE Spec2Model ----
(***************************************************************************)
(* Model of the HOA directory importer: the association classifier, the   *)
(* row extractor (Mode A and Mode B), the address decomposer, the units   *)
(* normalizer, the two row normalizers and the upload pipeline of         *)
(* src/hoa_importer_app.py, with the CSV import of                        *)
(* src/import_to_quickbase.py.                                            *)
(*                                                                         *)
(* A Python str is a sequence of one-character strings, so that upper(),  *)
(* strip(), split(), substring tests and the regular expressions of the   *)
(* source are computed character by character.                            *)
(***************************************************************************)
EXTENDS Integers, Sequences, FiniteSets, TLC

(***************************************************************************)
(* Characters and the str methods the source uses.                        *)
(***************************************************************************)
LowerAlpha == <<"a","b","c","d","e","f","g","h","i","j","k","l","m","n","o","p","q","r","s","t","u","v","w","x","y","z">>
UpperAlpha == <<"A","B","C","D","E","F","G","H","I","J","K","L","M","N","O","P","Q","R","S","T","U","V","W","X","Y","Z">>
DigitChars == {"0","1","2","3","4","5","6","7","8","9"}
LowerSet == {LowerAlpha[k] : k \in 1..26}
UpperSet == {UpperAlpha[k] : k \in 1..26}
AlphaSet == LowerSet \cup UpperSet
\* whitespace that can occur inside one line (line breaks end the line)
SpaceChars == {" ", "\t"}
LineBreak == "\n"

UpperMap == [c \in LowerSet |-> UpperAlpha[CHOOSE k \in 1..26 : LowerAlpha[k] = c]]
LowerMap == [c \in UpperSet |-> LowerAlpha[CHOOSE k \in 1..26 : UpperAlpha[k] = c]]

\* Python's None where a str may stand: no str equals it, a str holding
\* one-character strings only
None == <<"None">>

\* `not v` for v a str or None
Falsy(v) == v = None \/ v = <<>>

\* str.upper() and str.lower()
upper(s) == [k \in 1..Len(s) |-> IF s[k] \in LowerSet THEN UpperMap[s[k]] ELSE s[k]]
lower(s) == [k \in 1..Len(s) |-> IF s[k] \in UpperSet THEN LowerMap[s[k]] ELSE s[k]]

\* p occurs in t at offset k (t[k+1 .. k+Len(p)] = p)
OccursAt(p, t, k) == /\ k + Len(p) <= Len(t)
                     /\ \A j \in 1..Len(p) : t[k + j] = p[j]

\* Python's `p in t` for two str
Contains(t, p) == \E k \in 0..(Len(t) - Len(p)) : OccursAt(p, t, k)

\* str.startswith(p)
startswith(s, p) == OccursAt(p, s, 0)

\* re.sub(r"[^...]", "", s): the characters of s that are in the class, in order
KeepChars(s, class) == SelectSeq(s, LAMBDA c : c \in class)

\* str.replace(c, "") for a one-character c
RemoveChar(s, c) == SelectSeq(s, LAMBDA d : d # c)

\* str.strip(): drop leading and trailing whitespace
strip(s) ==
    LET idx == {k \in 1..Len(s) : s[k] \notin SpaceChars}
    IN  IF idx = {} THEN <<>>
        ELSE LET lo == CHOOSE k \in idx : \A m \in idx : k <= m
                 hi == CHOOSE k \in idx : \A m \in idx : k >= m
             IN  SubSeq(s, lo, hi)

\* sep.join(parts)
RECURSIVE join(_, _)
join(sep, parts) ==
    IF parts = <<>> THEN <<>>
    ELSE IF Len(parts) = 1 THEN parts[1]
    ELSE parts[1] \o sep \o join(sep, Tail(parts))

\* the elements of a finite set of integers, in increasing order
Ascending(S) ==
    [m \in 1..Cardinality(S) |-> CHOOSE a \in S : Cardinality({b \in S : b < a}) = m - 1]

\* the pieces of s around the delimiter positions D, a run of adjacent
\* delimiters cutting once: a piece starts at 1 and after every run, and
\* ends before the next delimiter
PiecesAround(s, D) ==
    LET starts == Ascending({1} \cup {d + 1 : d \in {e \in D : e + 1 \notin D}})
        stop(a) == LET later == {d \in D : d >= a}
                   IN  IF later = {} THEN Len(s)
                       ELSE (CHOOSE d \in later : \A e \in later : d <= e) - 1
    IN  [m \in 1..Len(starts) |-> SubSeq(s, starts[m], stop(starts[m]))]

\* str.splitlines(): the text is cut after every line break; a text that
\* ends with a line break has no empty last line
splitlines(text) ==
    LET breaks == {k \in 1..Len(text) : text[k] = LineBreak}
        starts == Ascending({a \in {1} \cup {b + 1 : b \in breaks} : a <= Len(text)})
        stop(a) == LET later == {b \in breaks : b >= a}
                   IN  IF later = {} THEN Len(text)
                       ELSE (CHOOSE b \in later : \A e \in later : b <= e) - 1
    IN  [m \in 1..Len(starts) |-> SubSeq(text, starts[m], stop(starts[m]))]

\* str.split(): the maximal runs of non-whitespace characters
split(s) ==
    SelectSeq(PiecesAround(s, {k \in 1..Len(s) : s[k] \in SpaceChars}),
              LAMBDA w : w # <<>>)

(***************************************************************************)
(* The regular expressions of the source, each computed as Python's re    *)
(* matches it (leftmost match, greedy repetition).                        *)
(***************************************************************************)
\* first index >= k of s whose character is not in class (past the end if
\* none): where a greedy run of the class that starts at k stops
SkipClass(s, k, class) ==
    LET stops == {m \in k..Len(s) : s[m] \notin class}
    IN  IF stops = {} THEN (IF k > Len(s) THEN k ELSE Len(s) + 1)
        ELSE CHOOSE m \in stops : \A n \in stops : m <= n

\* the literal p stands in s from index k on
LiteralAt(s, k, p) == k >= 1 /\ OccursAt(p, s, k - 1)

s_found == <<"f","o","u","n","d">>
s_from == <<"f","r","o","m">>
s_search == <<"s","e","a","r","c","h">>

\* re.match(r"^\d+\s+found\s+from\s+search$", l)
SummaryLineMatch(l) ==
    LET a == SkipClass(l, 1, DigitChars)
        b == SkipClass(l, a, SpaceChars)
        c == SkipClass(l, b + Len(s_found), SpaceChars)
        d == SkipClass(l, c + Len(s_from), SpaceChars)
    IN  /\ a > 1
        /\ b > a
        /\ LiteralAt(l, b, s_found)
        /\ c > b + Len(s_found)
        /\ LiteralAt(l, c, s_from)
        /\ d > c + Len(s_from)
        /\ LiteralAt(l, d, s_search)
        /\ d + Len(s_search) = Len(l) + 1

\* a digit anywhere in the line, as re.search(r"\d+", l) would accept
StreetLineMatch_search(l) == \E k \in 1..Len(l) : l[k] \in DigitChars

\* re.match(r"^\d+", l)
StreetLineMatch(l) == Len(l) >= 1 /\ l[1] \in DigitChars

\* re.search(r",[ ]*[A-Z]{2}[ ]*\d{5}", l)
CityStateZipMatch(l) ==
    \E k \in 1..Len(l) :
        /\ l[k] = ","
        /\ LET a == SkipClass(l, k + 1, {" "})
               b == SkipClass(l, a + 2, {" "})
           IN  /\ a + 1 <= Len(l)
               /\ l[a] \in UpperSet
               /\ l[a + 1] \in UpperSet
               /\ b + 4 <= Len(l)
               /\ \A m \in b..(b + 4) : l[m] \in DigitChars

\* email_regex = r"[A-Za-z0-9._%+-]+@[A-Za-z0-9.-]+\.[A-Za-z]{2,}"
EmailLocalChars == AlphaSet \cup DigitChars \cup {".", "_", "%", "+", "-"}
EmailDomainChars == AlphaSet \cup DigitChars \cup {".", "-"}

\* the index after a match of email_regex that starts at k, or 0 when none
\* starts there: the local part runs up to an "@", the domain is the longest
\* run that still leaves "." and two or more letters
EmailMatchEnd(s, k) ==
    LET at == SkipClass(s, k, EmailLocalChars)
        runEnd == SkipClass(s, at + 1, EmailDomainChars)
        dots == {p \in (at + 2)..(runEnd - 1) :
                    /\ s[p] = "."
                    /\ SkipClass(s, p + 1, AlphaSet) >= p + 3}
    IN  IF at > k /\ at <= Len(s) /\ s[at] = "@" /\ dots # {}
        THEN SkipClass(s, (CHOOSE p \in dots : \A q \in dots : q <= p) + 1, AlphaSet)
        ELSE 0

\* re.search(email_regex, s): <<start, end>> of the leftmost match (end is the
\* index after it), or <<0, 0>> when there is none
EmailSearch(s) ==
    LET starts == {k \in 1..Len(s) : EmailMatchEnd(s, k) # 0}
    IN  IF starts = {} THEN <<0, 0>>
        ELSE LET k == CHOOSE m \in starts : \A n \in starts : m <= n
             IN  <<k, EmailMatchEnd(s, k)>>

\* re.split(r"\s+", s): s cut at every whitespace run
FieldSplit_any(s) ==
    LET ws(k) == k >= 1 /\ k <= Len(s) /\ s[k] \in SpaceChars
    IN  SelectSeq(PiecesAround(s, {k \in 1..Len(s) : ws(k)}), LAMBDA w : w # <<>>)

\* re.split(r"\s{2,}|\t", s): s is cut at every run of two or more
\* whitespace characters and at every single tab
FieldSplit(s) ==
    LET ws(k) == k >= 1 /\ k <= Len(s) /\ s[k] \in SpaceChars
    IN  PiecesAround(s, {k \in 1..Len(s) :
                            ws(k) /\ (ws(k - 1) \/ ws(k + 1) \/ s[k] = "\t")})

(***************************************************************************)
(* Association Classifier: detect_association and its lexicon, in the     *)
(* order the source declares it.                                          *)
(***************************************************************************)
UNKNOWN == <<"U","N","K","N","O","W","N">>
AAGO == <<"A","A","G","O">>

\* mapping: <<phrase, code>>, in declaration order
mapping == <<
    << <<"A","P","A","R","T","M","E","N","T"," ","A","S","S","O","C","I","A","T","I","O","N"," ","O","F"," ","G","R","E","A","T","E","R"," ","O","R","L","A","N","D","O">>,
       <<"A","A","G","O">> >>,
    << <<"F","I","R","S","T"," ","C","O","A","S","T"," ","A","A">>,
       <<"F","C","A","A">> >>,
    << <<"F","I","R","S","T"," ","C","O","A","S","T"," ","A","P","A","R","T","M","E","N","T"," ","A","S","S","O","C","I","A","T","I","O","N">>,
       <<"F","C","A","A">> >>,
    << <<"C","A","P","I","T","A","L"," ","C","I","T","Y"," ","A","A">>,
       <<"C","C","A","A">> >>,
    << <<"N","O","R","T","H","W","E","S","T"," ","F","L","O","R","I","D","A"," ","A","P","A","R","T","M","E","N","T"," ","A","S","S","O","C">>,
       <<"N","W","F","A","A">> >>,
    << <<"M","O","B","I","L","E"," ","B","A","Y"," ","A","R","E","A"," ","A","P","A","R","T","M","E","N","T"," ","A","S","S","O","C">>,
       <<"M","B","A","A","A">> >>,
    << <<"G","R","E","A","T","E","R"," ","G","U","L","F"," ","C","O","A","S","T"," ","A","P","A","R","T","M","E","N","T"," ","A","S","S","O","C","I","A","T","I","O","N">>,
       <<"G","G","C","A","A">> >>,
    << <<"B","A","T","O","N"," ","R","O","U","G","E"," ","A","P","A","R","T","M","E","N","T"," ","A","S","S","O","C","I","A","T","I","O","N">>,
       <<"B","R","A","A">> >>,
    << <<"S","H","R","E","V","E","P","O","R","T","/","B","O","S","S","I","E","R"," ","A","A">>,
       <<"S","B","A","A">> >>,
    << <<"A","C","A","D","I","A","N","A"," ","A","P","A","R","T","M","E","N","T"," ","A","S","S","O","C","A","T","I","O","N">>,
       <<"A","A","A">> >>,
    << <<"H","O","U","S","T","O","N"," ","A","P","A","R","T","M","E","N","T"," ","A","S","S","O","C","I","A","T","I","O","N">>,
       <<"H","A","A">> >>,
    << <<"A","P","A","R","T","M","E","N","T"," ","A","S","S","O","C","I","A","T","I","O","N"," ","O","F"," ","G","R","E","A","T","E","R"," ","M","E","M","P","H","I","S">>,
       <<"A","A","G","M">> >>,
    << <<"G","R","E","A","T","E","R"," ","N","A","S","H","V","I","L","L","E"," ","A","P","A","R","T","M","E","N","T"," ","A","S","S","O","C","I","A","T","I","O","N">>,
       <<"G","N","A","A">> >>,
    << <<"U","P","P","E","R"," ","S","T","A","T","E"," ","A","P","A","R","T","M","E","N","T"," ","A","S","S","O","C">>,
       <<"U","S","A","A">> >>,
    << <<"G","R","E","A","T","E","R"," ","C","O","L","U","M","B","U","S"," ","A","P","A","R","T","M","E","N","T"," ","A","S","S","O","C","I","A","T","I","O","N">>,
       <<"G","C","A","A">> >>,
    << <<"G","R","E","A","T","E","R"," ","O","R","L","A","N","D","O"," ","C","H","A","P","T","E","R"," ","O","F"," ","I","F","M","A">>,
       <<"I","F","M","A","-","O","R","L">> >>,
    << <<"I","F","M","A"," ","-"," ","J","A","C","K","S","O","N","V","I","L","L","E">>,
       <<"I","F","M","A","-","J","A","X">> >>,
    << <<"S","U","N","C","O","A","S","T"," ","C","H","A","P","T","E","R">>,
       <<"I","F","M","A","-","S","C">> >>,
    << <<"C","E","N","T","R","A","L"," ","A","L"," ","A","N","D"," ","G","U","L","F"," ","C","O","A","S","T"," ","C","H","A","P","T","E","R"," ","O","F"," ","I","F","M","A">>,
       <<"I","F","M","A","-","A","L","G","C">> >>,
    << <<"N","E","W"," ","O","R","L","E","A","N","S"," ","C","H","A","P","T","E","R"," ","O","F"," ","I","F","M","A">>,
       <<"I","F","M","A","-","N","O">> >>,
    << <<"B","A","T","O","N"," ","R","O","U","G","E"," ","C","H","A","P","T","E","R"," ","O","F"," ","I","F","M","A">>,
       <<"I","F","M","A","-","B","R">> >>,
    << <<"M","E","M","P","H","I","S"," ","C","H","A","P","T","E","R"," ","O","F"," ","I","F","M","A">>,
       <<"I","F","M","A","-","M","E","M">> >>,
    << <<"N","A","S","H","V","I","L","L","E"," ","C","H","A","P","T","E","R"," ","O","F"," ","I","F","M","A">>,
       <<"I","F","M","A","-","N","S","H">> >>,
    << <<"C","A","I"," ","N","O","R","T","H","E","A","S","T"," ","F","L","O","R","I","D","A">>,
       <<"C","A","I","-","N","E","F","L">> >>,
    << <<"N","O","R","T","H"," ","G","U","L","F"," ","C","O","A","S","T"," ","C","H","A","P","T","E","R">>,
       <<"C","A","I","-","N","G","C">> >>,
    << <<"L","O","U","S","I","A","N","A"," ","C","H","A","P","T","E","R">>,
       <<"C","A","I","-","L","A">> >>,
    << <<"T","E","N","N","E","S","S","E","E"," ","C","H","A","P","T","E","R">>,
       <<"C","A","I","-","T","N">> >>,
    << <<"H","O","U","S","T","O","N"," ","B","O","M","A">>,
       <<"B","O","M","A","-","H","O","U">> >>,
    << <<"B","O","M","A"," ","H","O","U","S","T","O","N">>,
       <<"B","O","M","A","-","H","O","U">> >>,
    << <<"B","O","M","A"," ","N","A","S","H","V","I","L","L","E">>,
       <<"B","O","M","A","-","N","S","H">> >>,
    << <<"T","A","P","P","A">>,
       <<"T","A","P","P","A">> >>,
    << <<"M","S","A","P","P","A">>,
       <<"M","S","A","P","P","A">> >>,
    << <<"F","L","A","P","P","A">>,
       <<"F","L","A","P","P","A">> >>,
    << <<"T","N","L","A">>,
       <<"T","N","L","A">> >>
>>

\* for key, code in mapping.items(): if key in text: return code
RECURSIVE FirstMatch(_, _, _, _)
FirstMatch(table, text, k, default) ==
    IF k > Len(table) THEN default
    ELSE IF Contains(text, table[k][1]) THEN table[k][2]
    ELSE FirstMatch(table, text, k + 1, default)

\* the code of the last matching entry: the loop without its early return
RECURSIVE LastMatch(_, _, _, _)
LastMatch(table, text, k, default) ==
    IF k > Len(table) THEN default
    ELSE LET rest == LastMatch(table, text, k + 1, default)
         IN  IF rest # default THEN rest
             ELSE IF Contains(text, table[k][1]) THEN table[k][2]
             ELSE default
detect_association_last(raw_text) == LastMatch(mapping, upper(raw_text), 1, UNKNOWN)

detect_association(raw_text) == FirstMatch(mapping, upper(raw_text), 1, UNKNOWN)

AAGO_COUNTIES == <<
    << <<"O","S","C","E","O","L","A"," ","C","O","U","N","T","Y">>, <<"O","s","c","e","o","l","a","C","o","u","n","t","y">> >>,
    << <<"O","R","A","N","G","E"," ","C","O","U","N","T","Y">>, <<"O","r","a","n","g","e","C","o","u","n","t","y">> >>,
    << <<"S","E","M","I","N","O","L","E"," ","C","O","U","N","T","Y">>, <<"S","e","m","i","n","o","l","e","C","o","u","n","t","y">> >>,
    << <<"L","A","K","E"," ","C","O","U","N","T","Y">>, <<"L","a","k","e","C","o","u","n","t","y">> >>,
    << <<"V","O","L","U","S","I","A"," ","C","O","U","N","T","Y">>, <<"V","o","l","u","s","i","a","C","o","u","n","t","y">> >>
>>

\* county_dir of extract_table_rows: the first county phrase in the text
county_dir_of(raw_text) ==
    FirstMatch(AAGO_COUNTIES, upper(raw_text), 1, <<"O","s","c","e","o","l","a","C","o","u","n","t","y">>)

(***************************************************************************)
(* Row Extractor: extract_table_rows.  Mode A (AAGO) keeps the buffer     *)
(* `current`, the remembered name `seen_name` (None or a str) and the    *)
(* flag `start_found`; Mode B handles each line alone.                    *)
(***************************************************************************)
s_found_from_search == <<"f","o","u","n","d"," ","f","r","o","m"," ","s","e","a","r","c","h">>
s_apartment_community == <<"a","p","a","r","t","m","e","n","t"," ","c","o","m","m","u","n","i","t","y">>
mode_a_labels == { <<"o","s","c","e","o","l","a"," ","c","o","u","n","t","y"," ","c","o","m","m","u","n","i","t","i","e","s">>, <<"s","e","a","r","c","h">>, <<"l","i","s","t">>, <<"m","a","p">> }
country_fillers == { <<"U","n","i","t","e","d"," ","S","t","a","t","e","s">>, <<"U","S","A">> }
url_base == <<"h","t","t","p","s",":","/","/","w","w","w",".","a","a","g","o",".","o","r","g","/">>

\* the slug with only the spaces of the name removed
profile_url_spaces(county_dir, name) ==
    url_base \o county_dir \o <<"/">> \o lower(RemoveChar(name, " "))

\* slug = re.sub(r"[^A-Za-z0-9]", "", name).lower()
\* url = f"https://www.aago.org/{county_dir}/{slug}"
profile_url(county_dir, name) ==
    url_base \o county_dir \o <<"/">> \o lower(KeepChars(name, AlphaSet \cup DigitChars))

\* the flush with the threshold one too low
finalize_current_two(cur, out) == IF Len(cur) >= 2 THEN Append(out, cur) ELSE out

\* finalize_current(): rows.append(current.copy()) when len(current) >= 3
finalize_current(cur, out) == IF Len(cur) >= 3 THEN Append(out, cur) ELSE out

\* a finalize marker that emits the buffer without the profile URL
marker_line_bare(st, county) ==
    [st EXCEPT !.current = <<>>,
               !.seen_name = None,
               !.rows = finalize_current(st.current, st.rows)]

\* the body of `if "apartment community" in l.lower():` : the buffer, the
\* remembered name and the rows after a finalize marker line
marker_line(st, county) ==
    [st EXCEPT !.current = <<>>,
               !.seen_name = None,
               !.rows = IF Len(st.current) >= 3
                        THEN finalize_current(
                                 Append(st.current, profile_url(county, st.current[1])),
                                 st.rows)
                        ELSE st.rows]

\* one iteration of `for line in lines:` of Mode A, on the extractor state
\* st = [current, seen_name, start_found, rows]
mode_a_line(st, line, county) ==
    LET l == strip(line)
    IN  IF l = <<>> THEN st
        ELSE IF ~st.start_found
             THEN (IF Contains(lower(l), s_found_from_search)
                   THEN [st EXCEPT !.start_found = TRUE]
                   ELSE st)
        ELSE IF lower(l) \in mode_a_labels THEN st
        ELSE IF l \in country_fillers THEN st
        ELSE IF SummaryLineMatch(lower(l)) THEN st
        ELSE IF Len(st.current) = 0
             THEN (IF st.seen_name = l
                   THEN st
                   ELSE [st EXCEPT !.current = <<l>>, !.seen_name = l])
        ELSE IF Len(st.current) = 1 /\ StreetLineMatch(l)
             THEN [st EXCEPT !.current = Append(st.current, l)]
        ELSE IF Len(st.current) = 2 /\ CityStateZipMatch(l)
             THEN [st EXCEPT !.current = Append(st.current, l)]
        ELSE IF Contains(lower(l), s_apartment_community)
             THEN marker_line(st, county)
        ELSE st

MinLineLen == 10
noise_prefixes == { <<"c","o","o","k","i","e">>, <<"s","k","i","p"," ","t","o">>, <<"w","a","n","t"," ","t","o"," ","f","i","n","d">>, <<"s","e","a","r","c","h"," ","f","o","r">>,
                    <<"c","o","m","p","a","n","y"," ","n","a","m","e">>, <<"u","n","i","t","s"," ","g","r","e","a","t","e","r">>, <<"c","o","m","p","a","n","y","\t","f","u","l","l">>,
                    <<"c","o","m","p","a","n","y"," ","f","u","l","l">>, <<"t","o"," ","v","i","e","w"," ","c","o","m","p","l","e","t","e">> }

\* the prefix test without .lower()
has_noise_prefix_cased(cleaned) == \E p \in noise_prefixes : startswith(cleaned, p)

\* cleaned.lower().startswith((...))
has_noise_prefix(cleaned) == \E p \in noise_prefixes : startswith(lower(cleaned), p)

\* one iteration of `for line in lines:` of Mode B: the rows the line adds
\* (none or one)
mode_b_line(line) ==
    LET cleaned == strip(line)
    IN  IF cleaned = <<>> \/ Len(cleaned) < MinLineLen THEN <<>>
        ELSE IF has_noise_prefix(cleaned) THEN <<>>
        ELSE LET m == EmailSearch(cleaned)
             IN  IF m[1] = 0 THEN <<>>
                 ELSE LET email == SubSeq(cleaned, m[1], m[2] - 1)
                          before == strip(SubSeq(cleaned, 1, m[1] - 1))
                          after == strip(SubSeq(cleaned, m[2], Len(cleaned)))
                          units == IF after # <<>> THEN KeepChars(after, DigitChars)
                                   ELSE <<>>
                          parts == FieldSplit(before)
                      IN  IF Len(parts) >= 4
                          THEN << <<parts[1], parts[2], parts[3], parts[4], email, units>> >>
                          ELSE <<>>

(***************************************************************************)
(* Address Decomposer: parse_address, once in each source file.  The      *)
(* result is <<street, city, state, zipcode>>.                            *)
(***************************************************************************)
country_first == { <<"U","N","I","T","E","D">>, <<"U","S","A">> }
country_second == { <<"S","T","A","T","E","S">>, <<"A","M","E","R","I","C","A">> }

\* the country test without .upper()
drop_country_cased(parts) ==
    IF /\ Len(parts) >= 2
       /\ parts[Len(parts) - 1] \in country_first
       /\ parts[Len(parts)] \in country_second
    THEN SubSeq(parts, 1, Len(parts) - 2)
    ELSE parts

\* parts[:-2] when the last two tokens are a country pair, else parts
drop_country(parts) ==
    IF /\ Len(parts) >= 2
       /\ upper(parts[Len(parts) - 1]) \in country_first
       /\ upper(parts[Len(parts)]) \in country_second
    THEN SubSeq(parts, 1, Len(parts) - 2)
    ELSE parts

\* parse_address without .replace(",", "")
parse_address_commas(full_address) ==
    IF Falsy(full_address) THEN << <<>>, <<>>, <<>>, <<>> >>
    ELSE LET parts == drop_country(split(strip(full_address)))
             n == Len(parts)
         IN  IF n < 4 THEN << full_address, <<>>, <<>>, <<>> >>
             ELSE << join(<<" ">>, SubSeq(parts, 1, n - 3)),
                     parts[n - 2], parts[n - 1], parts[n] >>

\* src/hoa_importer_app.py
parse_address(full_address) ==
    IF Falsy(full_address) THEN << <<>>, <<>>, <<>>, <<>> >>
    ELSE LET addr == strip(RemoveChar(full_address, ","))
             parts == drop_country(split(addr))
             n == Len(parts)
         IN  IF n < 4 THEN << full_address, <<>>, <<>>, <<>> >>
             ELSE << join(<<" ">>, SubSeq(parts, 1, n - 3)),
                     parts[n - 2], parts[n - 1], parts[n] >>

\* src/import_to_quickbase.py: its own copy of the country test
import_drop_country(parts) ==
    IF /\ Len(parts) >= 2
       /\ upper(parts[Len(parts) - 1]) \in country_first
       /\ upper(parts[Len(parts)]) \in country_second
    THEN SubSeq(parts, 1, Len(parts) - 2)
    ELSE parts

import_parse_address(full_address) ==
    IF Falsy(full_address) THEN << <<>>, <<>>, <<>>, <<>> >>
    ELSE LET addr == strip(RemoveChar(full_address, ","))
             parts == import_drop_country(split(addr))
             n == Len(parts)
         IN  IF n < 4 THEN << full_address, <<>>, <<>>, <<>> >>
             ELSE << join(<<" ">>, SubSeq(parts, 1, n - 3)),
                     parts[n - 2], parts[n - 1], parts[n] >>

(***************************************************************************)
(* Units Normalizer.  The units value is the one place where the type of  *)
(* a Python value matters, so it is carried with its type: PyStr(s) a     *)
(* str, PyInt(k) an int, PyNone; a conversion that raises gives PyRaise.  *)
(***************************************************************************)
PyStr(s) == [t |-> "str", s |-> s]
PyInt(k) == [t |-> "int", n |-> k]
PyNone == [t |-> "none"]
PyRaise == [t |-> "raise", exc |-> "ValueError"]

DigitValue == [c \in DigitChars |->
                 CHOOSE k \in 0..9 : <<"0","1","2","3","4","5","6","7","8","9">>[k + 1] = c]

\* int(digits) for a non-empty str of decimal digits
RECURSIVE IntOfDigits(_, _)
IntOfDigits(digits, acc) ==
    IF digits = <<>> THEN acc
    ELSE IntOfDigits(Tail(digits), 10 * acc + DigitValue[Head(digits)])

\* int(s): ValueError unless s is a non-empty str of digits (the callers
\* pass digit characters only)
int(s) == IF s = <<>> THEN PyRaise ELSE PyInt(IntOfDigits(s, 0))

\* clean_units(value) of src/hoa_importer_app.py, value a str or None
clean_units(value) ==
    IF value.t = "none" \/ value.s = <<>> THEN PyInt(0)
    ELSE LET digits == KeepChars(value.s, DigitChars)
         IN  IF digits # <<>> THEN int(digits) ELSE PyInt(0)

\* units_clean = int(re.sub(r"[^\d]", "", row["units"])) if row["units"] else 0
\* of import_csv_to_quickbase
import_units_clean(units) ==
    IF units.t # "none" /\ units.s # <<>>
    THEN int(KeepChars(units.s, DigitChars))
    ELSE PyInt(0)

(***************************************************************************)
(* Row Normalizer, pipeline strategy: parse_row(parts, detected_assoc) of *)
(* src/hoa_importer_app.py.  A result is <<record>>, or <<>> for None.    *)
(***************************************************************************)
\* parts[k].strip() if len(parts) > k else ""   (k counted from 0)
optional_field(parts, k) == IF Len(parts) > k THEN strip(parts[k + 1]) ELSE <<>>

\* the AAGO layout that asks for the profile URL as well
parse_row_aago_strict(parts, detected_assoc) ==
    IF Len(parts) < 4 THEN <<>>
    ELSE LET name == strip(parts[1])
             full_address == strip(parts[2]) \o <<" ">> \o strip(parts[3])
             a == parse_address(full_address)
         IN  << [Company |-> name, Property |-> name,
                 Street |-> a[1], City |-> a[2], State |-> a[3], Zip |-> a[4],
                 Phone |-> <<>>, Email |-> <<>>, Units |-> PyStr(<<>>),
                 URL |-> optional_field(parts, 3),
                 Association |-> detected_assoc, MemberType |-> <<"M","e","m","b","e","r">>] >>

parse_row_aago(parts, detected_assoc) ==
    IF Len(parts) < 3 THEN <<>>
    ELSE LET name == strip(parts[1])
             full_address == strip(parts[2]) \o <<" ">> \o strip(parts[3])
             a == parse_address(full_address)
         IN  << [Company |-> name, Property |-> name,
                 Street |-> a[1], City |-> a[2], State |-> a[3], Zip |-> a[4],
                 Phone |-> <<>>, Email |-> <<>>, Units |-> PyStr(<<>>),
                 URL |-> optional_field(parts, 3),
                 Association |-> detected_assoc, MemberType |-> <<"M","e","m","b","e","r">>] >>

\* the generic layout with the association of the CSV strategy, "HAA"
parse_row_generic_haa(parts, detected_assoc) ==
    IF Len(parts) < 3 THEN <<>>
    ELSE LET units_raw == optional_field(parts, 5)
             a == parse_address(strip(parts[3]))
         IN  << [Company |-> strip(parts[1]), Property |-> strip(parts[2]),
                 Street |-> a[1], City |-> a[2], State |-> a[3], Zip |-> a[4],
                 Phone |-> optional_field(parts, 3),
                 Email |-> optional_field(parts, 4),
                 Units |-> PyStr(IF units_raw # <<>>
                                 THEN KeepChars(units_raw, DigitChars) ELSE <<>>),
                 URL |-> optional_field(parts, 6),
                 Association |-> <<"H","A","A">>, MemberType |-> <<"M","e","m","b","e","r">>] >>

\* the generic layout with the units left as they came
parse_row_generic_raw(parts, detected_assoc) ==
    IF Len(parts) < 3 THEN <<>>
    ELSE LET a == parse_address(strip(parts[3]))
         IN  << [Company |-> strip(parts[1]), Property |-> strip(parts[2]),
                 Street |-> a[1], City |-> a[2], State |-> a[3], Zip |-> a[4],
                 Phone |-> optional_field(parts, 3),
                 Email |-> optional_field(parts, 4),
                 Units |-> PyStr(optional_field(parts, 5)),
                 URL |-> optional_field(parts, 6),
                 Association |-> detected_assoc, MemberType |-> <<"M","e","m","b","e","r">>] >>

parse_row_generic(parts, detected_assoc) ==
    IF Len(parts) < 3 THEN <<>>
    ELSE LET units_raw == optional_field(parts, 5)
             a == parse_address(strip(parts[3]))
         IN  << [Company |-> strip(parts[1]), Property |-> strip(parts[2]),
                 Street |-> a[1], City |-> a[2], State |-> a[3], Zip |-> a[4],
                 Phone |-> optional_field(parts, 3),
                 Email |-> optional_field(parts, 4),
                 Units |-> PyStr(IF units_raw # <<>>
                                 THEN KeepChars(units_raw, DigitChars) ELSE <<>>),
                 URL |-> optional_field(parts, 6),
                 Association |-> detected_assoc, MemberType |-> <<"M","e","m","b","e","r">>] >>

parse_row(parts, detected_assoc) ==
    IF detected_assoc = AAGO THEN parse_row_aago(parts, detected_assoc)
    ELSE parse_row_generic(parts, detected_assoc)

(***************************************************************************)
(* Row Normalizer, CSV-import strategy: parse_row(parts, idx) of          *)
(* src/import_to_quickbase.py.                                            *)
(***************************************************************************)
\* the grave accent (U+0060), which a TLA+ string cannot hold
Backquote == "grave"
junk_tokens == { <<Backquote, Backquote, Backquote>>, <<".",".",".">>, <<"t","h","e","r","e"," ","a","r","e">> }

\* x or default, for str
or_default(x, default) == IF x # <<>> THEN x ELSE default

csv_record(company, prop, a, phone, email, units, association, member_type) ==
    [company |-> company, property_name |-> prop,
     street |-> a[1], city |-> a[2], state |-> a[3], zip |-> a[4],
     phone |-> phone, email |-> email, units |-> PyStr(units),
     association |-> association, member_type |-> member_type]

\* the CSV strategy taking every row of 7 or more columns, other than
\* 11, for the 7-column layout
import_parse_row_lenient(parts) ==
    LET row_text == lower(join(<<" ">>, parts))
        p == [k \in 1..Len(parts) |-> strip(parts[k])]
    IN  IF Len(parts) < 6 \/ \E j \in junk_tokens : Contains(row_text, j) THEN <<>>
        ELSE IF Len(parts) = 11
             THEN << csv_record(p[1], p[2], <<p[3], p[4], p[5], p[6]>>, p[7], p[8], p[9],
                                or_default(p[10], <<"H","A","A">>), or_default(p[11], <<"O","w","n","e","r">>)) >>
        ELSE IF Len(parts) = 6
             THEN << csv_record(p[1], p[2], import_parse_address(p[3]), p[4], p[5], p[6],
                                <<"H","A","A">>, <<"O","w","n","e","r">>) >>
        ELSE << csv_record(p[1], p[2],
                           import_parse_address(p[3] \o <<" ">> \o p[4]),
                           p[5], p[6], p[7], <<"H","A","A">>, <<"O","w","n","e","r">>) >>

import_parse_row(parts) ==
    LET row_text == lower(join(<<" ">>, parts))
        p == [k \in 1..Len(parts) |-> strip(parts[k])]
    IN  IF Len(parts) < 6 \/ \E j \in junk_tokens : Contains(row_text, j) THEN <<>>
        ELSE IF Len(parts) = 11
             THEN << csv_record(p[1], p[2], <<p[3], p[4], p[5], p[6]>>, p[7], p[8], p[9],
                                or_default(p[10], <<"H","A","A">>), or_default(p[11], <<"O","w","n","e","r">>)) >>
        ELSE IF Len(parts) = 6
             THEN << csv_record(p[1], p[2], import_parse_address(p[3]), p[4], p[5], p[6],
                                <<"H","A","A">>, <<"O","w","n","e","r">>) >>
        ELSE IF Len(parts) = 7
             THEN << csv_record(p[1], p[2],
                                import_parse_address(p[3] \o <<" ">> \o p[4]),
                                p[5], p[6], p[7], <<"H","A","A">>, <<"O","w","n","e","r">>) >>
        ELSE <<>>

(***************************************************************************)
(* Input documents.  `doc` records how a document was put together, so    *)
(* that what the program extracts can be compared with what was put in:   *)
(*   kind "blocks": a banner, blocks of name / street / city-state-zip /  *)
(*                  finalize marker, and a last block cut after `tail`     *)
(*                  lines;                                                 *)
(*   kind "lines":  any sequence of Mode-A line kinds;                     *)
(*   kind "table":  tabular lines, fields joined by the separator of the   *)
(*                  style, then an email and a trailing text;              *)
(*   kind "noise":  UI-noise lines only;                                   *)
(*   kind "listing": a banner and any lines of a Mode-A listing;           *)
(*   kind "compact": single-spaced Mode-B lines.                           *)
(* `header` holds lines put before the body, `items` indexes the pool of  *)
(* the kind, `style` picks the rendering.                                 *)
(***************************************************************************)
MaxBlocks == 2
MaxLines == 4
MaxTableLines == 2
MaxNoiseLines == 2
MaxHeader == 2

\* all sequences of length 0..n over the set S
SeqsUpTo(S, n) == UNION {[1..m -> S] : m \in 0..n}

\* header lines: `rank` is the position in `mapping` of the earliest declared
\* phrase the line holds (0: none) and `code` the code declared with it
HeaderPool == <<
    [text |-> <<"H","o","u","s","t","o","n"," ","A","p","a","r","t","m","e","n","t"," ","A","s","s","o","c","i","a","t","i","o","n">>, rank |-> 11, code |-> <<"H","A","A">>],
    [text |-> <<"f","i","r","s","t"," ","c","o","a","s","t"," ","a","a">>, rank |-> 2, code |-> <<"F","C","A","A">>],
    [text |-> <<"A","p","a","r","t","m","e","n","t"," ","A","s","s","o","c","i","a","t","i","o","n"," ","o","f"," ","G","r","e","a","t","e","r"," ","O","r","l","a","n","d","o">>, rank |-> 1, code |-> <<"A","A","G","O">>],
    [text |-> <<"W","e","l","c","o","m","e"," ","t","o"," ","B","o","m","a"," ","H","o","u","s","t","o","n",","," ","f","o","r","m","e","r","l","y"," ","H","o","u","s","t","o","n"," ","B","O","M","A">>, rank |-> 28, code |-> <<"B","O","M","A","-","H","O","U">>],
    [text |-> <<"f","l","a","p","p","a"," ","&"," ","t","a","p","p","a">>, rank |-> 31, code |-> <<"T","A","P","P","A">>],
    [text |-> <<"M","e","m","b","e","r"," ","d","i","r","e","c","t","o","r","y">>, rank |-> 0, code |-> UNKNOWN]
>>

\* well-formed Mode-A blocks: `slug` is the name without its
\* non-alphanumerics, lowercased; `county` the county phrase in the block
BlockPool == <<
    [name |-> <<"A","c","m","e"," ","V","i","l","l","a","s">>, slug |-> <<"a","c","m","e","v","i","l","l","a","s">>,
     street |-> <<"1","0","0"," ","M","a","i","n"," ","S","t">>, csz |-> <<"O","r","l","a","n","d","o",","," ","F","L"," ","3","2","8","0","1">>, county |-> <<>>],
    [name |-> <<"T","h","e"," ","G","r","o","v","e"," ","@"," ","L","a","k","e"," ","C","o","u","n","t","y">>, slug |-> <<"t","h","e","g","r","o","v","e","l","a","k","e","c","o","u","n","t","y">>,
     street |-> <<"2"," ","E","l","m"," ","A","v","e">>, csz |-> <<"L","e","e","s","b","u","r","g",",","F","L"," ","3","4","7","4","8">>, county |-> <<"L","a","k","e","C","o","u","n","t","y">>],
    [name |-> <<"O","r","a","n","g","e"," ","C","o","u","n","t","y"," ","L","o","f","t","s","-","2">>, slug |-> <<"o","r","a","n","g","e","c","o","u","n","t","y","l","o","f","t","s","2">>,
     street |-> <<"5","5"," ","W"," ","C","h","u","r","c","h"," ","S","t"," ","#","7">>, csz |-> <<"O","r","l","a","n","d","o",","," "," ","F","L"," "," ","3","2","8","0","1","-","1","2","3","4">>,
     county |-> <<"O","r","a","n","g","e","C","o","u","n","t","y">>],
    [name |-> <<"5","5"," ","W","e","s","t"," ","A","p","a","r","t","m","e","n","t"," ","C","o","m","m","u","n","i","t","y">>, slug |-> <<"5","5","w","e","s","t","a","p","a","r","t","m","e","n","t","c","o","m","m","u","n","i","t","y">>,
     street |-> <<"5","5"," ","W","e","s","t"," ","S","t">>, csz |-> <<"K","i","s","s","i","m","m","e","e",","," ","F","L"," ","3","4","7","4","1">>, county |-> <<>>]
>>

BlockBanner == << <<"1","5"," ","f","o","u","n","d"," ","f","r","o","m"," ","s","e","a","r","c","h">>, <<"R","e","s","u","l","t","s",":"," ","3"," ","F","o","u","n","d"," ","F","r","o","m"," ","S","e","a","r","c","h">> >>
BlockMarker == << <<"A","p","a","r","t","m","e","n","t"," ","C","o","m","m","u","n","i","t","y">>, <<"A","P","A","R","T","M","E","N","T"," ","C","O","M","M","U","N","I","T","Y"," ","(","M","e","m","b","e","r",")">> >>

\* style 2 surrounds every line with whitespace
Padded(style, l) == IF style = 2 THEN <<" "," ">> \o l \o <<" ","\t">> ELSE l

BlockLines(b, style, n) ==
    SubSeq(<< Padded(style, b.name), Padded(style, b.street), Padded(style, b.csz),
              Padded(style, BlockMarker[style]) >>, 1, n)

RECURSIVE Flatten(_)
Flatten(ss) == IF ss = <<>> THEN <<>> ELSE Head(ss) \o Flatten(Tail(ss))

\* Mode-A line kinds for arbitrary line sequences
LinePool == << <<"1","5"," ","f","o","u","n","d"," ","f","r","o","m"," ","s","e","a","r","c","h">>, <<"A","c","m","e"," ","V","i","l","l","a","s">>, <<"1","0","0"," ","M","a","i","n"," ","S","t">>,
               <<"O","r","l","a","n","d","o",","," ","F","L"," ","3","2","8","0","1">>, <<"A","p","a","r","t","m","e","n","t"," ","C","o","m","m","u","n","i","t","y">>, <<"P","o","o","l"," ","a","n","d"," ","g","y","m">> >>

\* Mode-B fields by position, and the separators, emails and trailing texts
TableFields == << <<"A","c","m","e"," ","C","o">>, <<"J","o","h","n"," ","S","m","i","t","h">>, <<"1","2","3"," ","E","l","m"," ","S","t"," ","H","o","u","s","t","o","n",","," ","T","X"," ","7","7","0","0","2">>,
                  <<"(","5","5","5",")"," ","1","2","3","-","4","5","6","7">>, <<"e","x","t"," ","9">> >>
TableSep == << <<" "," "," ">>, <<"\t">>, <<" ","\t">> >>
TableEmail == << <<"j","o","h","n","@","a","c","m","e",".","c","o","m">>, <<"j",".","s","m","i","t","h","+","h","o","a","@","a","c","m","e","-","m","g","m","t",".","c","o",".","u","k">> >>
\* trailing text after the email, with the digits it holds
TableAfter == << [text |-> <<" "," "," ","4","2"," ","u","n","i","t","s">>, digits |-> <<"4","2">>],
                 [text |-> <<>>, digits |-> <<>>],
                 [text |-> <<"\t","1",",","2","3","4"," ","(","2"," ","b","l","d","g","s",")">>, digits |-> <<"1","2","3","4","2">>] >>
\* a table line: the number of fields before the email and whether the line
\* starts with a UI-noise prefix
TableLineKinds == {[n |-> n, noise |-> z] : n \in 3..5, z \in BOOLEAN}
\* the k-th line of a table takes its email and its trailing text in turn
TableEmailOf(k) == TableEmail[((k - 1) % Len(TableEmail)) + 1]
TableAfterOf(style, k) == TableAfter[((k + style - 2) % Len(TableAfter)) + 1]

TableLine(kind, style, k) ==
    LET sep == TableSep[style]
        fields == [m \in 1..kind.n |-> IF m = 1 /\ kind.noise
                                       THEN <<"C","o","m","p","a","n","y"," ","N","a","m","e">> ELSE TableFields[m]]
    IN  join(sep, fields) \o sep \o TableEmailOf(k) \o TableAfterOf(style, k).text

\* UI-noise lines (cookie banners, navigation labels); `rank` and `code` as
\* in HeaderPool
NoisePool == <<
    [text |-> <<"C","o","o","k","i","e"," ","s","e","t","t","i","n","g","s",":"," ","w","e"," ","u","s","e"," ","c","o","o","k","i","e","s">>, rank |-> 0, code |-> UNKNOWN],
    [text |-> <<"C","o","m","p","a","n","y"," ","N","a","m","e"," "," "," ","C","o","n","t","a","c","t"," "," "," ","A","d","d","r","e","s","s"," "," "," ","P","h","o","n","e"," "," "," ","i","n","f","o","@","s","i","t","e",".","c","o","m"," "," "," ","U","n","i","t","s">>,
     rank |-> 0, code |-> UNKNOWN],
    [text |-> <<"S","e","a","r","c","h"," ","f","o","r"," ","A","p","a","r","t","m","e","n","t"," ","A","s","s","o","c","i","a","t","i","o","n"," ","o","f"," ","G","r","e","a","t","e","r"," ","O","r","l","a","n","d","o"," ","m","e","m","b","e","r","s">>,
     rank |-> 1, code |-> <<"A","A","G","O">>],
    [text |-> <<"W","a","n","t"," ","t","o"," ","f","i","n","d"," ","m","o","r","e","?"," ","1","5"," ","f","o","u","n","d"," ","f","r","o","m"," ","s","e","a","r","c","h">>, rank |-> 0, code |-> UNKNOWN],
    [text |-> <<"M","a","p">>, rank |-> 0, code |-> UNKNOWN],
    [text |-> <<"T","o"," ","v","i","e","w"," ","c","o","m","p","l","e","t","e"," ","l","i","s","t",":"," ","O","r","a","n","g","e"," ","C","o","u","n","t","y",","," ","F","L"," ","3","2","8","0","1">>,
     rank |-> 0, code |-> UNKNOWN]
>>

\* lines of a Mode-A listing after its banner.  `digit`: the line starts with
\* a digit; `digit_space`: it starts with digits followed by a space; `csz`:
\* it holds a comma, a 2-letter state code and a 5-digit zip; `marker`: it
\* holds the finalize marker phrase
MaxListingLines == 3
ListingPool == <<
    [text |-> <<"A","c","m","e"," ","V","i","l","l","a","s">>,
     digit |-> FALSE, digit_space |-> FALSE, csz |-> FALSE, marker |-> FALSE],
    [text |-> <<"1","0","0"," ","M","a","i","n"," ","S","t">>,
     digit |-> TRUE, digit_space |-> TRUE, csz |-> FALSE, marker |-> FALSE],
    [text |-> <<"O","r","l","a","n","d","o",","," ","F","L"," ","3","2","8","0","1">>,
     digit |-> FALSE, digit_space |-> FALSE, csz |-> TRUE, marker |-> FALSE],
    [text |-> <<"A","p","a","r","t","m","e","n","t"," ","C","o","m","m","u","n","i","t","y">>,
     digit |-> FALSE, digit_space |-> FALSE, csz |-> FALSE, marker |-> TRUE],
    [text |-> <<"P","o","o","l"," ","a","n","d"," ","g","y","m">>,
     digit |-> FALSE, digit_space |-> FALSE, csz |-> FALSE, marker |-> FALSE],
    [text |-> <<"5","5"," ","W","e","s","t"," ","A","p","a","r","t","m","e","n","t"," ","C","o","m","m","u","n","i","t","y">>,
     digit |-> TRUE, digit_space |-> TRUE, csz |-> FALSE, marker |-> TRUE],
    [text |-> <<"1","0","0","B"," ","O","a","k"," ","L","n">>,
     digit |-> TRUE, digit_space |-> FALSE, csz |-> FALSE, marker |-> FALSE]
>>

\* single-spaced Mode-B lines.  `wide`: the number of fields before the
\* email when cut at runs of whitespace and tabs; `fallback`: the first four
\* fields by single-space tokens around the phone-shaped token, if there is
\* one; `digits`: the digits after the email
MaxCompactLines == 3
CompactPool == <<
    [text |-> <<"A","c","m","e"," ","C","o"," ","J","o","h","n"," ","S","m","i","t","h"," ","1","2","3"," ","E","l","m"," ","S","t"," ","5","5","5","-","1","2","3","-","4","5","6","7"," ","j","o","h","n","@","a","c","m","e",".","c","o","m"," ","4","2"," ","u","n","i","t","s">>,
     wide |-> 1, email |-> <<"j","o","h","n","@","a","c","m","e",".","c","o","m">>, digits |-> <<"4","2">>,
     fallback |-> << <<"A","c","m","e">>, <<"C","o">>, <<"J","o","h","n"," ","S","m","i","t","h"," ","1","2","3"," ","E","l","m"," ","S","t">>, <<"5","5","5","-","1","2","3","-","4","5","6","7">> >>],
    [text |-> <<"B","i","r","c","h"," ","L","L","C"," "," ","A","n","n"," ","L","e","e"," ","9"," ","O","a","k"," ","R","d"," ","D","a","l","l","a","s"," ","(","2","1","4",")"," ","5","5","5","-","0","1","9","9"," "," ","a","n","n","@","b","i","r","c","h",".","o","r","g">>,
     wide |-> 2, email |-> <<"a","n","n","@","b","i","r","c","h",".","o","r","g">>, digits |-> <<>>,
     fallback |-> <<>>],
    [text |-> <<"C","e","d","a","r"," ","A","n","n"," ","L","e","e"," ","a","n","n","@","c","e","d","a","r",".","o","r","g"," ","7">>,
     wide |-> 1, email |-> <<"a","n","n","@","c","e","d","a","r",".","o","r","g">>, digits |-> <<"7">>,
     fallback |-> <<>>],
    [text |-> <<"A","c","m","e"," ","C","o"," "," "," ","J","o","h","n"," ","S","m","i","t","h"," "," "," ","1","2","3"," ","E","l","m"," ","S","t"," "," "," ","5","5","5","-","1","2","3","-","4","5","6","7"," "," "," ","j","o","h","n","@","a","c","m","e",".","c","o","m"," "," "," ","4","2"," ","u","n","i","t","s">>,
     wide |-> 4, email |-> <<"j","o","h","n","@","a","c","m","e",".","c","o","m">>, digits |-> <<"4","2">>,
     fallback |-> <<>>]
>>

BodyLines(d) ==
    IF d.kind = "blocks"
    THEN <<Padded(d.style, BlockBanner[d.style])>>
         \o Flatten([k \in 1..Len(d.items) |-> BlockLines(BlockPool[d.items[k]], d.style, 4)])
         \o BlockLines(BlockPool[1], d.style, d.tail)
    ELSE IF d.kind = "lines" THEN [k \in 1..Len(d.items) |-> LinePool[d.items[k]]]
    ELSE IF d.kind = "table"
    THEN [k \in 1..Len(d.items) |-> TableLine(d.items[k], d.style, k)]
    ELSE IF d.kind = "listing"
    THEN <<BlockBanner[1]>> \o [k \in 1..Len(d.items) |-> ListingPool[d.items[k]].text]
    ELSE IF d.kind = "compact"
    THEN [k \in 1..Len(d.items) |-> CompactPool[d.items[k]].text]
    ELSE [k \in 1..Len(d.items) |-> NoisePool[d.items[k]].text]

DocLines(d) == [k \in 1..Len(d.header) |-> HeaderPool[d.header[k]].text] \o BodyLines(d)

\* the uploaded text: every line ends with a line break
Render(d) == Flatten([k \in 1..Len(DocLines(d)) |-> DocLines(d)[k] \o <<LineBreak>>])

BlockDocs ==
    {[kind |-> "blocks", header |-> <<>>, items |-> it, style |-> s, tail |-> t] :
        it \in SeqsUpTo(1..Len(BlockPool), MaxBlocks), s \in 1..2, t \in 0..3}
LineDocs ==
    {[kind |-> "lines", header |-> <<>>, items |-> it, style |-> 1, tail |-> 0] :
        it \in SeqsUpTo(1..Len(LinePool), MaxLines)}
TableDocs ==
    {[kind |-> "table", header |-> <<>>, items |-> it, style |-> s, tail |-> 0] :
        it \in SeqsUpTo(TableLineKinds, MaxTableLines), s \in 1..Len(TableSep)}
NoiseDocs ==
    {[kind |-> "noise", header |-> <<>>, items |-> it, style |-> 1, tail |-> 0] :
        it \in SeqsUpTo(1..Len(NoisePool), MaxNoiseLines)}

ListingDocs ==
    {[kind |-> "listing", header |-> <<>>, items |-> it, style |-> 1, tail |-> 0] :
        it \in SeqsUpTo(1..Len(ListingPool), MaxListingLines)}
CompactDocs ==
    {[kind |-> "compact", header |-> <<>>, items |-> it, style |-> 1, tail |-> 0] :
        it \in SeqsUpTo(1..Len(CompactPool), MaxCompactLines)}
(***************************************************************************)
(* Inputs of the pure functions.  `arg` records how the argument was put  *)
(* together; ArgValue is the argument itself.                             *)
(***************************************************************************)
MaxAddrTokens == 4
MaxUnitsLen == 3
MaxRowLen == 12

\* address tokens as typed and as they read once the commas are removed
AddrTokenPool == <<
    [raw |-> <<"1","2">>, clean |-> <<"1","2">>],
    [raw |-> <<"E","l","m",",">>, clean |-> <<"E","l","m">>],
    [raw |-> <<"S","t",".",",","A","p","t">>, clean |-> <<"S","t",".","A","p","t">>],
    [raw |-> <<",">>, clean |-> <<>>]
>>
\* what follows the address: `pair` tells a trailing country pair
CountrySuffixPool == <<
    [raw |-> <<>>, clean |-> <<>>, pair |-> FALSE],
    [raw |-> << <<"U","n","i","t","e","d">>, <<"S","t","a","t","e","s">> >>, clean |-> << <<"U","n","i","t","e","d">>, <<"S","t","a","t","e","s">> >>, pair |-> TRUE],
    [raw |-> << <<"u","s","a",",">>, <<"A","M","E","R","I","C","A">> >>, clean |-> << <<"u","s","a">>, <<"A","M","E","R","I","C","A">> >>, pair |-> TRUE],
    [raw |-> << <<"U","S","A">> >>, clean |-> << <<"U","S","A">> >>, pair |-> FALSE],
    [raw |-> << <<"S","t","a","t","e","s">>, <<"U","n","i","t","e","d">> >>, clean |-> << <<"S","t","a","t","e","s">>, <<"U","n","i","t","e","d">> >>, pair |-> FALSE]
>>
AddrSep == << <<" ">>, <<" "," ","\t"," ">> >>

AddressArgs ==
    {[kind |-> "address", items |-> it, suffix |-> u, style |-> s] :
        it \in SeqsUpTo(1..Len(AddrTokenPool), MaxAddrTokens),
        u \in 1..Len(CountrySuffixPool), s \in 1..Len(AddrSep)}

\* the tokens of the address once commas are removed, a token that was all
\* commas leaving nothing
AddrTokens(a) ==
    SelectSeq([k \in 1..Len(a.items) |-> AddrTokenPool[a.items[k]].clean],
              LAMBDA w : w # <<>>)
        \o CountrySuffixPool[a.suffix].clean

\* style 2 also puts whitespace around the address
AddrText(a) ==
    LET body == join(AddrSep[a.style],
                     [k \in 1..Len(a.items) |-> AddrTokenPool[a.items[k]].raw]
                         \o CountrySuffixPool[a.suffix].raw)
    IN  IF a.style = 2 THEN <<" ">> \o body \o <<" "," ">> ELSE body

UnitsAlphabet == {"0", "4", "2", ",", "u"}
\* raw units values from the sources, with the integer their digits form
UnitsExamples == <<
    [text |-> <<"1",",","2","3","4"," ","u","n","i","t","s">>, int |-> 1234],
    [text |-> <<"4","2">>, int |-> 42],
    [text |-> <<" ","0","0","7"," ">>, int |-> 7],
    [text |-> <<"N","/","A">>, int |-> 0],
    [text |-> <<"1","2"," ","u","n","i","t","s",","," ","3"," ","b","l","d","g","s">>, int |-> 123]
>>

\* raw rows of n fields: style 1 is a plausible listing, style 2 has blank
\* fields, style 3 holds a junk token
RowFields == << <<"A","c","m","e"," ","C","o">>, <<"J","o","h","n"," ","S","m","i","t","h"," ">>, <<"1","2","3"," ","E","l","m"," ","S","t"," ","H","o","u","s","t","o","n",","," ","T","X"," ","7","7","0","0","2">>,
                <<"5","5","5","-","1","2","3","-","4","5","6","7">>, <<"j","o","h","n","@","a","c","m","e",".","c","o","m">>, <<"4","2"," ","u","n","i","t","s">>,
                <<"h","t","t","p","s",":","/","/","w","w","w",".","a","a","g","o",".","o","r","g","/","O","s","c","e","o","l","a","C","o","u","n","t","y","/","a","c","m","e">> >>
RowField(style, k) ==
    IF style = 2 THEN (IF k % 2 = 0 THEN <<" ">> ELSE <<>>)
    ELSE IF style = 3 /\ k = 2 THEN <<"s","e","e"," ","n","o","t","e","s",".",".",".">>
    ELSE RowFields[((k - 1) % Len(RowFields)) + 1]
RowArgs ==
    {[kind |-> "row", n |-> n, style |-> s, assoc |-> a] :
        n \in 0..MaxRowLen, s \in 1..3, a \in {AAGO, <<"H","A","A">>, UNKNOWN}}
RowParts(a) == [k \in 1..a.n |-> RowField(a.style, k)]

(***************************************************************************)
(* State.                                                                  *)
(***************************************************************************)
VARIABLES
    doc,            \* how the uploaded document was put together
    raw_text,       \* the uploaded text
    detected_assoc, \* the association code of the document
    lines,          \* raw_text.splitlines()
    i,              \* position of `for line in lines`
    county_dir,     \* Mode A: the county path segment
    current,        \* Mode A: the buffer of collected lines
    seen_name,      \* Mode A: the remembered name
    start_found,    \* Mode A: the banner has been seen
    detected_rows,  \* the RawRows of extract_table_rows
    j,              \* position of `for parts in detected_rows`
    rows,           \* the normalized records
    pc,             \* position in the handler, or in the call of a function
    fn,             \* the pure function called
    arg,            \* how its argument was put together
    result,         \* what it returned
    driver,         \* the browser session of the enrichment
    temp_dirs,      \* profile_dir and cache_dir: "none", "made", "removed"
    logged_in,      \* aago_password_login(driver) returned True
    url_map,        \* enrichment: name -> profile link, from the county page
    ei,             \* enrichment: position of `for i, row in enumerate(rows)`
    lookups,        \* enrichment: the calls of fetch_aago_profile made so far
    q,              \* send_to_quickbase: position of `for _, row in df.iterrows()`
    results,        \* send_to_quickbase: results
    posted,         \* the requests the sink has received, with its responses
    reader,         \* import_csv_to_quickbase: the rows of the CSV file
    idx,            \* import_csv_to_quickbase: number of the row at hand
    rows_processed  \* import_csv_to_quickbase: rows_processed

vars == <<doc, raw_text, detected_assoc, lines, i, county_dir, current, seen_name,
          start_found, detected_rows, j, rows, pc, fn, arg, result,
          driver, temp_dirs, logged_in, url_map, ei, lookups, q, results, posted, reader, idx, rows_processed>>

extractor == <<lines, i, county_dir, current, seen_name, start_found, detected_rows>>
harness == <<fn, arg, result>>
session == <<driver, temp_dirs, logged_in, url_map, ei, lookups, q, results, posted>>
importer == <<reader, idx, rows_processed>>

NoDoc == [kind |-> "none", header |-> <<>>, items |-> <<>>, style |-> 1, tail |-> 0]
NoArg == [kind |-> "none"]

\* before the handler runs: nothing extracted, nothing normalized
Idle ==
    /\ lines = <<>> /\ i = 1 /\ county_dir = <<>>
    /\ current = <<>> /\ seen_name = None /\ start_found = FALSE
    /\ detected_rows = <<>> /\ j = 1 /\ rows = <<>>

NoCall == fn = "none" /\ arg = NoArg /\ result = <<>>

\* no browser, nothing looked up, nothing sent, no CSV file
NoSession ==
    /\ driver = "none" /\ temp_dirs = "none" /\ logged_in = FALSE
    /\ url_map = {} /\ ei = 1 /\ lookups = <<>>
    /\ q = 1 /\ results = <<>> /\ posted = <<>>
    /\ reader = <<>> /\ idx = 0 /\ rows_processed = 0

\* the documents uploaded to the pipeline: an AAGO listing under its
\* header line, a table alone or under the HAA header line, noise alone, and
\* every header over a short noise body
PipelineDoc ==
    \/ \E d \in BlockDocs : doc = [d EXCEPT !.header = <<3>>]
    \/ \E d \in TableDocs, h \in {<<>>, <<1>>} : doc = [d EXCEPT !.header = h]
    \/ \E d \in NoiseDocs : doc = d
    \/ \E d \in NoiseDocs, h \in SeqsUpTo(1..Len(HeaderPool), MaxHeader) :
          Len(d.items) <= 1 /\ doc = [d EXCEPT !.header = h]

\* the upload handler: `if uploaded_file:`
Init ==
    /\ PipelineDoc
    /\ raw_text = Render(doc)
    /\ detected_assoc = None
    /\ Idle /\ NoCall /\ NoSession
    /\ pc = "upload"

\* extract_table_rows(raw_text, detected_assoc) called on its own
InitExtract ==
    /\ \/ \E d \in BlockDocs : doc = d /\ detected_assoc \in {AAGO, <<"H","A","A">>}
       \/ \E d \in LineDocs : doc = d /\ detected_assoc = AAGO
       \/ \E d \in TableDocs : doc = d /\ detected_assoc \in {AAGO, <<"H","A","A">>, UNKNOWN}
       \/ \E d \in NoiseDocs : doc = d /\ detected_assoc \in {AAGO, UNKNOWN}
    /\ raw_text = Render(doc)
    /\ Idle /\ NoCall /\ NoSession
    /\ pc = "call_extract"

InitCall(args) ==
    /\ arg \in args
    /\ fn = "none" /\ result = <<>>
    /\ doc = NoDoc /\ raw_text = <<>> /\ detected_assoc = None
    /\ Idle /\ NoSession
    /\ pc = "call"

InitAddress ==
    \/ InitCall(AddressArgs)
    \/ InitCall({[kind |-> "address_none"]})

InitUnits ==
    \/ InitCall({[kind |-> "units", value |-> PyStr(s), example |-> 0] :
                    s \in SeqsUpTo(UnitsAlphabet, MaxUnitsLen)})
    \/ InitCall({[kind |-> "units", value |-> PyStr(UnitsExamples[e].text), example |-> e] :
                    e \in 1..Len(UnitsExamples)})
    \/ InitCall({[kind |-> "units", value |-> PyNone, example |-> 0]})

InitNormalize == InitCall(RowArgs)

(***************************************************************************)
(* The upload handler of src/hoa_importer_app.py.                         *)
(***************************************************************************)
\* detected_assoc = detect_association(raw_text)
DetectAssociation ==
    /\ pc = "upload"
    /\ detected_assoc' = detect_association(raw_text)
    /\ pc' = "call_extract"
    /\ UNCHANGED <<doc, raw_text, extractor, j, rows, harness, session, importer>>

\* extract_table_rows: the statements before the loop over the lines
ExtractBegin ==
    /\ pc = "call_extract"
    /\ lines' = splitlines(raw_text)
    /\ detected_rows' = <<>>
    /\ i' = 1
    /\ IF detected_assoc = AAGO
       THEN /\ county_dir' = county_dir_of(raw_text)
            /\ current' = <<>>
            /\ seen_name' = None
            /\ start_found' = FALSE
            /\ pc' = "mode_a"
       ELSE /\ UNCHANGED <<county_dir, current, seen_name, start_found>>
            /\ pc' = "mode_b"
    /\ UNCHANGED <<doc, raw_text, detected_assoc, j, rows, harness, session, importer>>

ModeAState ==
    [current |-> current, seen_name |-> seen_name, start_found |-> start_found,
     rows |-> detected_rows]

\* Mode A: one line of `for line in lines:`
ModeALine ==
    /\ pc = "mode_a"
    /\ i <= Len(lines)
    /\ LET st == mode_a_line(ModeAState, lines[i], county_dir)
       IN  /\ current' = st.current
           /\ seen_name' = st.seen_name
           /\ start_found' = st.start_found
           /\ detected_rows' = st.rows
    /\ i' = i + 1
    /\ UNCHANGED <<doc, raw_text, detected_assoc, lines, county_dir, j, rows, pc, harness, session, importer>>

\* Mode A: after the loop, finalize_current() and return rows
ModeAEnd ==
    /\ pc = "mode_a"
    /\ i > Len(lines)
    /\ detected_rows' = finalize_current(current, detected_rows)
    /\ pc' = "extracted"
    /\ UNCHANGED <<doc, raw_text, detected_assoc, lines, i, county_dir, current,
                   seen_name, start_found, j, rows, harness, session, importer>>

\* Mode B: one line of `for line in lines:`
ModeBLine ==
    /\ pc = "mode_b"
    /\ i <= Len(lines)
    /\ detected_rows' = detected_rows \o mode_b_line(lines[i])
    /\ i' = i + 1
    /\ UNCHANGED <<doc, raw_text, detected_assoc, lines, county_dir, current,
                   seen_name, start_found, j, rows, pc, harness, session, importer>>

\* Mode B: return rows
ModeBEnd ==
    /\ pc = "mode_b"
    /\ i > Len(lines)
    /\ pc' = "extracted"
    /\ UNCHANGED <<doc, raw_text, detected_assoc, extractor, j, rows, harness, session, importer>>

\* for parts in detected_rows: parsed = parse_row(...); if parsed: rows.append(parsed)
NormalizeRow ==
    /\ pc = "extracted"
    /\ j <= Len(detected_rows)
    /\ rows' = rows \o parse_row(detected_rows[j], detected_assoc)
    /\ j' = j + 1
    /\ UNCHANGED <<doc, raw_text, detected_assoc, extractor, pc, harness, session, importer>>

\* every RawRow has been normalized
NormalizeEnd ==
    /\ pc = "extracted"
    /\ j > Len(detected_rows)
    /\ pc' = "normalized"
    /\ UNCHANGED <<doc, raw_text, detected_assoc, extractor, j, rows, harness, session, importer>>

Extract == ExtractBegin \/ ModeALine \/ ModeAEnd \/ ModeBLine \/ ModeBEnd

Next == DetectAssociation \/ Extract \/ NormalizeRow \/ NormalizeEnd

Spec == Init /\ [][Next]_vars

SpecExtract == InitExtract /\ [][Extract]_vars

(***************************************************************************)
(* Calls of the pure functions.                                           *)
(***************************************************************************)
pipeline == <<doc, raw_text, detected_assoc, extractor, j, rows>>

ArgValue(a) ==
    IF a.kind = "address" THEN AddrText(a)
    ELSE IF a.kind = "address_none" THEN None
    ELSE IF a.kind = "units" THEN a.value
    ELSE RowParts(a)

Call(name, value) ==
    /\ pc = "call"
    /\ fn' = name
    /\ result' = value
    /\ pc' = "returned"
    /\ UNCHANGED <<pipeline, arg, session, importer>>

CallParseAddress == Call("parse_address", parse_address(ArgValue(arg)))
CallImportParseAddress == Call("import_parse_address", import_parse_address(ArgValue(arg)))
CallCleanUnits == Call("clean_units", clean_units(ArgValue(arg)))
CallImportUnitsClean == Call("import_units_clean", import_units_clean(ArgValue(arg)))
CallParseRow == Call("parse_row", parse_row(ArgValue(arg), arg.assoc))
CallImportParseRow == Call("import_parse_row", import_parse_row(ArgValue(arg)))

NextAddress == CallParseAddress \/ CallImportParseAddress
NextUnits == CallCleanUnits \/ CallImportUnitsClean
NextNormalize == CallParseRow \/ CallImportParseRow

SpecAddress == InitAddress /\ [][NextAddress]_vars
SpecUnits == InitUnits /\ [][NextUnits]_vars
SpecNormalize == InitNormalize /\ [][NextNormalize]_vars


(***************************************************************************)
(* The Record Sink and the standalone import, import_csv_to_quickbase of   *)
(* src/import_to_quickbase.py.  The sink is outside the program: its      *)
(* answer to a request is any member of ResponsePool.                     *)
(***************************************************************************)
MaxCsvRows == 3

\* resp.status_code and resp.text of the sink's answers
ResponsePool == {
    [status_code |-> 200, text |-> <<"c","r","e","a","t","e","d">>],
    [status_code |-> 207, text |-> <<"p","a","r","t","l","y"," ","c","r","e","a","t","e","d">>],
    [status_code |-> 400, text |-> <<"B","a","d"," ","R","e","q","u","e","s","t">>] }

\* rows of a CSV file as csv.reader yields them.  `accepted`: the row has a
\* known layout; `named`: company and property name are not blank;
\* `digits`: the units column holds a digit
CsvRowPool == <<
    [parts |-> << <<"A","c","m","e"," ","C","o">>, <<"J","o","h","n"," ","S","m","i","t","h">>, <<"1","2","3"," ","E","l","m"," ","S","t"," ","H","o","u","s","t","o","n",","," ","T","X"," ","7","7","0","0","2">>,
                  <<"5","5","5","-","1","2","3","-","4","5","6","7">>, <<"j","o","h","n","@","a","c","m","e",".","c","o","m">>, <<"4","2"," ","u","n","i","t","s">> >>,
     accepted |-> TRUE, named |-> TRUE, digits |-> TRUE],
    [parts |-> << <<" "," ">>, <<"J","o","h","n"," ","S","m","i","t","h">>, <<"1","2","3"," ","E","l","m"," ","S","t"," ","H","o","u","s","t","o","n",","," ","T","X"," ","7","7","0","0","2">>,
                  <<"5","5","5","-","1","2","3","-","4","5","6","7">>, <<"j","o","h","n","@","a","c","m","e",".","c","o","m">>, <<"7">> >>,
     accepted |-> TRUE, named |-> FALSE, digits |-> TRUE],
    [parts |-> << <<"B","i","r","c","h"," ","L","L","C">>, <<"O","a","k"," ","P","a","r","k">>, <<"9"," ","O","a","k"," ","R","d">>, <<"D","a","l","l","a","s",","," ","T","X"," ","7","5","2","0","1"," ","U","S","A">>,
                  <<"5","5","5","-","0","0","0","-","1","1","1","1">>, <<"i","n","f","o","@","b","i","r","c","h",".","o","r","g">>, <<"N","/","A">> >>,
     accepted |-> TRUE, named |-> TRUE, digits |-> FALSE],
    [parts |-> << <<"A","c","m","e"," ","C","o">>, <<"J","o","h","n"," ","S","m","i","t","h">>, <<"1","2","3"," ","E","l","m"," ","S","t">> >>,
     accepted |-> FALSE, named |-> TRUE, digits |-> FALSE],
    [parts |-> << <<"C","e","d","a","r"," ","I","n","c">>, <<"C","e","d","a","r"," ","C","o","u","r","t">>, <<"1"," ","P","i","n","e"," ","S","t">>, <<"A","u","s","t","i","n">>, <<"T","X">>, <<"7","3","3","0","1">>,
                  <<>>, <<>>, <<>>, <<>>, <<>> >>,
     accepted |-> TRUE, named |-> TRUE, digits |-> FALSE]
>>

CsvDocs ==
    {[kind |-> "csv", header |-> <<>>, items |-> it, style |-> 1, tail |-> 0] :
        it \in SeqsUpTo(1..Len(CsvRowPool), MaxCsvRows)}

\* the record of one request, keyed by the field ids of the sink's table
import_record(row, units_clean) ==
    "6" :> row.association @@ "7" :> row.property_name @@ "8" :> row.member_type
    @@ "9" :> (row.street \o <<" ">> \o row.city \o <<" ">> \o row.state
                 \o <<" ">> \o row.zip)
    @@ "10" :> row.city @@ "11" :> row.state @@ "12" :> row.zip
    @@ "14" :> row.phone @@ "15" :> row.email @@ "18" :> row.company
    @@ "22" :> units_clean

\* with open(csv_path) ...: reader = csv.reader(f); header = next(reader)
InitImport ==
    /\ doc \in CsvDocs
    /\ reader = [k \in 1..Len(doc.items) |-> CsvRowPool[doc.items[k]].parts]
    /\ idx = 0 /\ rows_processed = 0
    /\ raw_text = <<>> /\ detected_assoc = None
    /\ Idle /\ NoCall
    /\ driver = "none" /\ temp_dirs = "none" /\ logged_in = FALSE
    /\ url_map = {} /\ ei = 1 /\ lookups = <<>>
    /\ q = 1 /\ results = <<>> /\ posted = <<>>
    /\ pc = "import"

\* row = parse_row(parts, idx); if not row: continue
ImportSkip ==
    /\ pc = "import"
    /\ idx < Len(reader)
    /\ import_parse_row(reader[idx + 1]) = <<>>
    /\ idx' = idx + 1
    /\ UNCHANGED <<pipeline, harness, session, reader, rows_processed, pc>>

\* units_clean = int(...) raises: the exception leaves the function
ImportRaise ==
    /\ pc = "import"
    /\ idx < Len(reader)
    /\ LET row == import_parse_row(reader[idx + 1])
       IN  /\ row # <<>>
           /\ import_units_clean(row[1].units).t = "raise"
    /\ idx' = idx + 1
    /\ pc' = "import_raised"
    /\ UNCHANGED <<pipeline, harness, session, reader, rows_processed>>

\* resp = requests.post(...); if resp.status_code != 200: return;
\* rows_processed += 1
ImportPost ==
    /\ pc = "import"
    /\ idx < Len(reader)
    /\ LET row == import_parse_row(reader[idx + 1])
       IN  /\ row # <<>>
           /\ LET units_clean == import_units_clean(row[1].units)
              IN  /\ units_clean.t # "raise"
                  /\ \E resp \in ResponsePool :
                        /\ posted' = Append(posted,
                                        [record |-> import_record(row[1], units_clean),
                                         resp |-> resp])
                        /\ IF resp.status_code # 200
                           THEN pc' = "import_stopped" /\ UNCHANGED rows_processed
                           ELSE pc' = pc /\ rows_processed' = rows_processed + 1
    /\ idx' = idx + 1
    /\ UNCHANGED <<pipeline, harness, driver, temp_dirs, logged_in, url_map, ei, lookups, q, results, reader>>

\* the reader is exhausted: "IMPORT COMPLETE"
ImportComplete ==
    /\ pc = "import"
    /\ idx = Len(reader)
    /\ pc' = "import_complete"
    /\ UNCHANGED <<pipeline, harness, session, importer>>

NextImport == ImportSkip \/ ImportRaise \/ ImportPost \/ ImportComplete

SpecImport == InitImport /\ [][NextImport]_vars

(***************************************************************************)
(* The rest of the upload handler of src/hoa_importer_app.py: the AAGO    *)
(* enrichment (browser session, login, URL map, one profile lookup per    *)
(* row with a URL), the display of the rows and send_to_quickbase.  What  *)
(* the browser and the sink answer is outside the program and is chosen   *)
(* among the pools below.                                                  *)
(***************************************************************************)
MaxSessionRows == 2

\* PHONE_REGEX = r"\(?\d{3}\)?[-.\s]?\d{3}[-.\s]?\d{4}"
PhoneSeps == {"-", "."} \cup SpaceChars \cup {LineBreak}

\* the position after the match of PHONE_REGEX starting at k, or 0.  An
\* optional character is taken exactly when it is there: what follows it in
\* the pattern is a digit, which the character is not
PhoneMatchEnd(s, k) ==
    LET opt(p, class) == IF p >= 1 /\ p <= Len(s) /\ s[p] \in class THEN p + 1 ELSE p
        digits(p, n) == p >= 1 /\ p + n - 1 <= Len(s)
                           /\ \A x \in p..(p + n - 1) : s[x] \in DigitChars
        a == opt(k, {"("})
        b == opt(a + 3, {")"})
        c == opt(b, PhoneSeps)
        d == opt(c + 3, PhoneSeps)
    IN  IF digits(a, 3) /\ digits(c, 3) /\ digits(d, 4) THEN d + 4 ELSE 0

\* PHONE_REGEX.search(s): match.group() of the leftmost match, or None
PhoneSearch(s) ==
    LET starts == {k \in 1..Len(s) : PhoneMatchEnd(s, k) # 0}
    IN  IF starts = {} THEN None
        ELSE LET k == CHOOSE x \in starts : \A y \in starts : x <= y
             IN  SubSeq(s, k, PhoneMatchEnd(s, k) - 1)

\* what the browser does with a profile URL: `raises` names the call that
\* raises ("none": no call does), `current_url` where the browser ended up,
\* `info` the texts of the ".info-section p, .contact-info p" elements and
\* `links` the texts of the <a> elements
PagePool == {
    [raises |-> "get", current_url |-> <<>>, info |-> <<>>, links |-> <<>>],
    [raises |-> "none", current_url |-> <<"h","t","t","p","s",":","/","/","w","w","w",".","a","a","g","o",".","o","r","g","/","L","o","g","i","n","?","r","e","t","u","r","n","U","r","l","=","x">>,
     info |-> << <<"C","a","l","l"," ","(","4","0","7",")"," ","5","5","5","-","0","1","0","0">> >>, links |-> << <<"S","e","n","d"," ","M","e","s","s","a","g","e">> >>],
    [raises |-> "find_links", current_url |-> <<"h","t","t","p","s",":","/","/","w","w","w",".","a","a","g","o",".","o","r","g","/","m","e","m","b","e","r","s","/","a","c","m","e">>,
     info |-> << <<"L","e","a","s","i","n","g"," ","o","f","f","i","c","e">>, <<"P","h","o","n","e",":"," ","4","0","7",".","5","5","5",".","0","1","0","0"," ","e","x","t"," ","2">> >>, links |-> <<>>],
    [raises |-> "none", current_url |-> <<"h","t","t","p","s",":","/","/","w","w","w",".","a","a","g","o",".","o","r","g","/","m","e","m","b","e","r","s","/","a","c","m","e">>,
     info |-> << <<"F","a","x"," ","5","5","5","-","0","1">>, <<"(","4","0","7",")"," ","5","5","5","-","0","1","0","0">> >>,
     links |-> << <<"H","o","m","e">>, <<"M","E","S","S","A","G","E"," ","U","S">> >>],
    [raises |-> "none", current_url |-> <<"h","t","t","p","s",":","/","/","w","w","w",".","a","a","g","o",".","o","r","g","/","m","e","m","b","e","r","s","/","a","c","m","e">>,
     info |-> << <<"O","p","e","n"," ","9","-","5">> >>, links |-> << <<"H","o","m","e">> >>] }

s_login == <<"l","o","g","i","n">>
s_message == <<"m","e","s","s","a","g","e">>
CONTACT_FORM == <<"C","O","N","T","A","C","T","_","F","O","R","M">>

\* fetch_aago_profile(driver, url), `page` being what the browser does with
\* the url: everything runs inside try, and the handler of Exception returns
\* `result` as it stands
fetch_aago_profile(page) ==
    LET result0 == [Phone |-> <<>>, Email |-> <<>>]
        found == {k \in 1..Len(page.info) : PhoneSearch(page.info[k]) # None}
        first == CHOOSE k \in found : \A x \in found : k <= x
        result1 == IF found = {} THEN result0
                   ELSE [result0 EXCEPT !.Phone = PhoneSearch(page.info[first])]
    IN  IF page.raises = "get" THEN result0
        ELSE IF Contains(lower(page.current_url), s_login) THEN result0
        ELSE IF page.raises = "find_info" THEN result0
        ELSE IF page.raises = "find_links" THEN result1
        ELSE IF \E k \in 1..Len(page.links) : Contains(lower(page.links[k]), s_message)
             THEN [result1 EXCEPT !.Email = CONTACT_FORM]
        ELSE result1

\* the url_map fetch_aago_urls may give for the rows at hand: empty (no card,
\* or the call raised and `url_map = {}`), a link for the first name, or a
\* link for every name
href_member == <<"h","t","t","p","s",":","/","/","w","w","w",".","a","a","g","o",".","o","r","g","/","m","e","m","b","e","r","s","/","a","c","m","e">>
UrlMaps(rs) ==
    { {},
      {<<rs[k].Company, href_member>> : k \in {1} \cap DOMAIN rs},
      {<<rs[k].Company, href_member>> : k \in DOMAIN rs} }

\* for row in rows: if name in url_map: row["URL"] = url_map[name]
with_url_map(rs, map) ==
    [k \in DOMAIN rs |->
        IF \E m \in map : m[1] = rs[k].Company
        THEN [rs[k] EXCEPT !.URL = (CHOOSE m \in map : m[1] = rs[k].Company)[2]]
        ELSE rs[k]]

\* the record of one request of send_to_quickbase
send_record(row, units_clean) ==
    "6" :> row.Association @@ "7" :> row.Property @@ "8" :> row.MemberType
    @@ "9" :> (row.Street \o <<" ">> \o row.City \o <<" ">> \o row.State
                 \o <<" ">> \o row.Zip)
    @@ "10" :> row.City @@ "11" :> row.State @@ "12" :> row.Zip
    @@ "14" :> row.Phone @@ "15" :> row.Email @@ "18" :> row.Company
    @@ "22" :> units_clean

\* the documents of the sessions: an AAGO listing of n complete blocks, with
\* or without a last block that lacks its marker, and a table of n lines
\* alone or under the HAA header line; at most MaxSessionRows rows
SessionDocs ==
    {[kind |-> "blocks", header |-> <<3>>, items |-> SubSeq(<<1, 2, 3, 4>>, 1, n),
      style |-> 1, tail |-> t] :
        n \in 0..MaxSessionRows, t \in {0, 3}}
    \cup
    {[kind |-> "table", header |-> h,
      items |-> [k \in 1..n |-> [n |-> 4, noise |-> FALSE]], style |-> 1, tail |-> 0] :
        n \in 0..MaxSessionRows, h \in {<<>>, <<1>>}}

InitSession ==
    /\ doc \in {d \in SessionDocs :
                  Len(d.items) + (IF d.tail = 3 THEN 1 ELSE 0) <= MaxSessionRows}
    /\ raw_text = Render(doc)
    /\ detected_assoc = None
    /\ Idle /\ NoCall /\ NoSession
    /\ pc = "upload"

\* `if detected_assoc == "AAGO" and rows:` is false
EnrichSkip ==
    /\ pc = "normalized"
    /\ ~(detected_assoc = AAGO /\ rows # <<>>)
    /\ pc' = "enriched"
    /\ UNCHANGED <<doc, raw_text, detected_assoc, extractor, j, rows, harness, session,
                   importer>>

\* profile_dir and cache_dir are made, then driver = webdriver.Chrome(...):
\* when it raises, `finally` finds driver None, removes the directories and
\* the exception ends the run
EnrichStart ==
    /\ pc = "normalized"
    /\ detected_assoc = AAGO /\ rows # <<>>
    /\ \/ driver' = "open" /\ temp_dirs' = "made" /\ pc' = "login"
       \/ driver' = driver /\ temp_dirs' = "removed" /\ pc' = "aborted"
    /\ UNCHANGED <<doc, raw_text, detected_assoc, extractor, j, rows, harness,
                   logged_in, url_map, ei, lookups, q, results, posted, importer>>

\* a login that leaves the block without `finally`
EnrichLoginLeaky ==
    /\ pc = "login"
    /\ \/ logged_in' = TRUE /\ pc' = "url_map"
       \/ logged_in' = FALSE /\ pc' = "enriched"
       \/ logged_in' = FALSE /\ pc' = "aborted"
    /\ UNCHANGED <<doc, raw_text, detected_assoc, extractor, j, rows, harness,
                   driver, temp_dirs, url_map, ei, lookups, q, results, posted, importer>>

\* if not aago_password_login(driver): st.error(...); the login may also
\* raise.  Without a login `finally` runs at once: driver.quit() and the
\* directories are removed
EnrichLogin ==
    /\ pc = "login"
    /\ \/ logged_in' = TRUE /\ pc' = "url_map" /\ UNCHANGED <<driver, temp_dirs>>
       \/ driver' = "quit" /\ temp_dirs' = "removed" /\ pc' = "enriched"
             /\ UNCHANGED logged_in
       \/ driver' = "quit" /\ temp_dirs' = "removed" /\ pc' = "aborted"
             /\ UNCHANGED logged_in
    /\ UNCHANGED <<doc, raw_text, detected_assoc, extractor, j, rows, harness,
                   url_map, ei, lookups, q, results, posted, importer>>

\* url_map = fetch_aago_urls(...) (or {} when it raises), then the URLs
\* of the rows named in it are replaced
EnrichUrlMap ==
    /\ pc = "url_map"
    /\ \E map \in UrlMaps(rows) :
          /\ url_map' = map
          /\ rows' = with_url_map(rows, map)
    /\ ei' = 1
    /\ pc' = "scrape"
    /\ UNCHANGED <<doc, raw_text, detected_assoc, extractor, j, harness,
                   driver, temp_dirs, logged_in, lookups, q, results, posted, importer>>

\* an iteration that looks every row up, with or without a URL
EnrichRowAll ==
    /\ pc = "scrape"
    /\ ei <= Len(rows)
    /\ \E page \in PagePool :
          LET profile == fetch_aago_profile(page)
          IN  /\ rows' = [rows EXCEPT ![ei].Phone = profile.Phone,
                                      ![ei].Email = profile.Email]
              /\ lookups' = Append(lookups,
                               [row |-> ei, url |-> rows[ei].URL, page |-> page])
    /\ ei' = ei + 1
    /\ UNCHANGED <<doc, raw_text, detected_assoc, extractor, j, harness,
                   driver, temp_dirs, logged_in, url_map, q, results, posted, pc, importer>>

\* one iteration of `for i, row in enumerate(rows):`
EnrichRow ==
    /\ pc = "scrape"
    /\ ei <= Len(rows)
    /\ IF rows[ei].URL # <<>>
       THEN \E page \in PagePool :
               LET profile == fetch_aago_profile(page)
               IN  /\ rows' = [rows EXCEPT ![ei].Phone = profile.Phone,
                                           ![ei].Email = profile.Email]
                   /\ lookups' = Append(lookups,
                                    [row |-> ei, url |-> rows[ei].URL, page |-> page])
       ELSE UNCHANGED <<rows, lookups>>
    /\ ei' = ei + 1
    /\ UNCHANGED <<doc, raw_text, detected_assoc, extractor, j, harness,
                   driver, temp_dirs, logged_in, url_map, q, results, posted, pc, importer>>

\* the loop is over; finally: driver.quit() and the directories are removed
EnrichEnd ==
    /\ pc = "scrape"
    /\ ei > Len(rows)
    /\ driver' = "quit"
    /\ temp_dirs' = "removed"
    /\ pc' = "enriched"
    /\ UNCHANGED <<doc, raw_text, detected_assoc, extractor, j, rows, harness,
                   logged_in, url_map, ei, lookups, q, results, posted, importer>>

\* the rows are shown as soon as the profile loop is running
ShowRowsEarly ==
    /\ pc \in {"enriched", "scrape"}
    /\ rows # <<>>
    /\ pc' = "displayed"
    /\ UNCHANGED <<doc, raw_text, detected_assoc, extractor, j, rows, harness, session,
                   importer>>

\* if rows: the table and the download are shown
ShowRows ==
    /\ pc = "enriched"
    /\ rows # <<>>
    /\ pc' = "displayed"
    /\ UNCHANGED <<doc, raw_text, detected_assoc, extractor, j, rows, harness, session,
                   importer>>

\* else: st.error("No valid rows were detected in this file.")
ShowNoRows ==
    /\ pc = "enriched"
    /\ rows = <<>>
    /\ pc' = "no_rows"
    /\ UNCHANGED <<doc, raw_text, detected_assoc, extractor, j, rows, harness, session,
                   importer>>

\* if st.button("Import to Quickbase"): send_to_quickbase(df) begins
PressImport ==
    /\ pc = "displayed"
    /\ q' = 1
    /\ results' = <<>>
    /\ pc' = "sending"
    /\ UNCHANGED <<doc, raw_text, detected_assoc, extractor, j, rows, harness,
                   driver, temp_dirs, logged_in, url_map, ei, lookups, posted, importer>>

\* the button was not pressed in this run
EndRun ==
    /\ pc = "displayed"
    /\ pc' = "done"
    /\ UNCHANGED <<doc, raw_text, detected_assoc, extractor, j, rows, harness, session,
                   importer>>

\* the loop of the standalone import, which leaves at the first response
\* whose status is not 200
SendRecordHalting ==
    /\ pc = "sending"
    /\ q <= Len(rows)
    /\ \E resp \in ResponsePool :
          /\ posted' = Append(posted,
                          [record |-> send_record(rows[q], clean_units(rows[q].Units)),
                           resp |-> resp])
          /\ results' = Append(results,
                           [Property |-> rows[q].Property,
                            Status |-> resp.status_code,
                            Response |-> resp.text])
          /\ q' = IF resp.status_code # 200 THEN Len(rows) + 1 ELSE q + 1
    /\ UNCHANGED <<doc, raw_text, detected_assoc, extractor, j, rows, harness,
                   driver, temp_dirs, logged_in, url_map, ei, lookups, pc, importer>>

\* send_to_quickbase: one iteration of `for _, row in df.iterrows():`
SendRecord ==
    /\ pc = "sending"
    /\ q <= Len(rows)
    /\ \E resp \in ResponsePool :
          /\ posted' = Append(posted,
                          [record |-> send_record(rows[q], clean_units(rows[q].Units)),
                           resp |-> resp])
          /\ results' = Append(results,
                           [Property |-> rows[q].Property,
                            Status |-> resp.status_code,
                            Response |-> resp.text])
    /\ q' = q + 1
    /\ UNCHANGED <<doc, raw_text, detected_assoc, extractor, j, rows, harness,
                   driver, temp_dirs, logged_in, url_map, ei, lookups, pc, importer>>

\* return pd.DataFrame(results); the results are shown
SendEnd ==
    /\ pc = "sending"
    /\ q > Len(rows)
    /\ pc' = "sent"
    /\ UNCHANGED <<doc, raw_text, detected_assoc, extractor, j, rows, harness, session,
                   importer>>

Enrich == EnrichSkip \/ EnrichStart \/ EnrichLogin \/ EnrichUrlMap \/ EnrichRow \/ EnrichEnd

Send == PressImport \/ SendRecord \/ SendEnd

NextSession == Next \/ Enrich \/ ShowRows \/ ShowNoRows \/ EndRun \/ Send

SpecSession == InitSession /\ [][NextSession]_vars

(***************************************************************************)
(* extract_table_rows called for AAGO on listings of any lines, and for   *)
(* another association on single-spaced lines.                            *)
(***************************************************************************)
InitModeA ==
    /\ doc \in ListingDocs
    /\ detected_assoc = AAGO
    /\ raw_text = Render(doc)
    /\ Idle /\ NoCall /\ NoSession
    /\ pc = "call_extract"

ExtractA == ExtractBegin \/ ModeALine \/ ModeAEnd

SpecModeA == InitModeA /\ [][ExtractA]_vars

InitModeB ==
    /\ doc \in CompactDocs
    /\ detected_assoc \in {<<"H","A","A">>, UNKNOWN}
    /\ raw_text = Render(doc)
    /\ Idle /\ NoCall /\ NoSession
    /\ pc = "call_extract"

ExtractB == ExtractBegin \/ ModeBLine \/ ModeBEnd

SpecModeB == InitModeB /\ [][ExtractB]_vars
(***************************************************************************)
(* The claims.                                                             *)
(***************************************************************************)
\* the code the document was built to carry: the code declared with the
\* earliest declared phrase among those put into it
DocHits(d) ==
    {<<HeaderPool[d.header[k]].rank, HeaderPool[d.header[k]].code>> : k \in 1..Len(d.header)}
        \cup (IF d.kind = "noise"
              THEN {<<NoisePool[d.items[k]].rank, NoisePool[d.items[k]].code>> :
                       k \in 1..Len(d.items)}
              ELSE {})
ExpectedAssoc(d) ==
    LET hits == {h \in DocHits(d) : h[1] > 0}
    IN  IF hits = {} THEN UNKNOWN
        ELSE (CHOOSE h \in hits : \A g \in hits : h[1] <= g[1])[2]

\* C1: detect_association returns the code of the first lexicon entry, in
\* declared order, whose phrase occurs in the uppercased text, wherever the
\* phrases stand in the text, and "UNKNOWN" when no phrase occurs.
C1_FirstDeclaredPhraseWins ==
    pc # "upload" => detected_assoc = ExpectedAssoc(doc)

\* the text names HAA's phrase before FCAA's, FCAA's is declared earlier
C1_Witness ==
    /\ pc = "call_extract"
    /\ doc.header = <<1, 2>>
    /\ detected_assoc = <<"F","C","A","A">>

\* the county path segment the blocks of the document call for
ExpectedCounty(d) ==
    LET named == {BlockPool[d.items[k]].county : k \in 1..Len(d.items)}
    IN  IF <<"O","r","a","n","g","e","C","o","u","n","t","y">> \in named THEN <<"O","r","a","n","g","e","C","o","u","n","t","y">>
        ELSE IF <<"L","a","k","e","C","o","u","n","t","y">> \in named THEN <<"L","a","k","e","C","o","u","n","t","y">>
        ELSE <<"O","s","c","e","o","l","a","C","o","u","n","t","y">>

ExpectedBlockRows(d) ==
    [k \in 1..Len(d.items) |->
        LET b == BlockPool[d.items[k]]
        IN  << b.name, b.street, b.csz,
               <<"h","t","t","p","s",":","/","/","w","w","w",".","a","a","g","o",".","o","r","g","/">> \o ExpectedCounty(d) \o <<"/">> \o b.slug >>]

\* C2: in Mode A, a banner line followed by k well-formed blocks (name,
\* street starting with a digit, city/state/zip, finalize marker) gives
\* exactly k RawRows in document order, each [name, street, cityStateZip,
\* profileUrl] with profileUrl https://www.aago.org/<county>/<slug>, the slug
\* the name without non-alphanumerics, lowercased, and the county resolved
\* once for the document (OsceolaCounty when no county phrase occurs).
C2_BlocksGiveRows ==
    (pc = "extracted" /\ detected_assoc = AAGO /\ doc.kind = "blocks" /\ doc.tail = 0)
        => detected_rows = ExpectedBlockRows(doc)

\* two blocks, the second naming Orange County: both rows carry that county
C2_Witness ==
    /\ pc = "extracted" /\ detected_assoc = AAGO
    /\ doc.kind = "blocks" /\ doc.tail = 0 /\ doc.items = <<1, 3>> /\ doc.style = 2
    /\ Len(detected_rows) = 2
    /\ detected_rows[1] = << <<"A","c","m","e"," ","V","i","l","l","a","s">>, <<"1","0","0"," ","M","a","i","n"," ","S","t">>, <<"O","r","l","a","n","d","o",","," ","F","L"," ","3","2","8","0","1">>,
                             <<"h","t","t","p","s",":","/","/","w","w","w",".","a","a","g","o",".","o","r","g","/","O","r","a","n","g","e","C","o","u","n","t","y","/","a","c","m","e","v","i","l","l","a","s">> >>

\* C3: at end of input the Mode-A extractor emits a final RawRow, the
\* buffer, if and only if the buffer then holds at least 3 collected lines;
\* a buffer that has not reached 3 lines emits nothing.
C3_EndOfInputFlush ==
    [][(pc = "mode_a" /\ pc' = "extracted")
          => IF Len(current) >= 3
             THEN detected_rows' = Append(detected_rows, current)
             ELSE detected_rows' = detected_rows]_vars

\* the input ended on a buffer of name, street and city/state/zip
C3_Witness ==
    /\ pc = "extracted" /\ detected_assoc = AAGO
    /\ Len(current) = 3
    /\ detected_rows # <<>>
    /\ detected_rows[Len(detected_rows)] = current

\* the k-th line of a table qualifies: no UI-noise prefix and at least 4
\* fields before the email
TableQualifies(d, k) == d.items[k].n >= 4 /\ ~d.items[k].noise
ExpectedTableRow(d, k) ==
    << TableFields[1], TableFields[2], TableFields[3], TableFields[4],
       TableEmailOf(k), TableAfterOf(d.style, k).digits >>

\* C4: in Mode B every line of at least 10 characters with no UI-noise
\* prefix, an email address and at least 4 fields before it (cut at runs
\* of two or more whitespace characters and at tabs) adds exactly one
\* RawRow of 6 fields [company, contactName, address, phone, email, units],
\* units the digits of the text after the email; rows come in line order.
C4_TableLineGivesRow ==
    [][(pc = "mode_b" /\ i' = i + 1 /\ doc.kind = "table" /\ doc.header = <<>>
           /\ TableQualifies(doc, i))
          => detected_rows' = Append(detected_rows, ExpectedTableRow(doc, i))]_vars

\* two qualifying lines, of 5 and of 4 fields, tab-separated
C4_Witness ==
    /\ pc = "extracted" /\ detected_assoc # AAGO
    /\ doc.kind = "table" /\ doc.style = 2
    /\ doc.items = << [n |-> 5, noise |-> FALSE], [n |-> 4, noise |-> FALSE] >>
    /\ detected_rows =
         << << <<"A","c","m","e"," ","C","o">>, <<"J","o","h","n"," ","S","m","i","t","h">>, <<"1","2","3"," ","E","l","m"," ","S","t"," ","H","o","u","s","t","o","n",","," ","T","X"," ","7","7","0","0","2">>,
               <<"(","5","5","5",")"," ","1","2","3","-","4","5","6","7">>, <<"j","o","h","n","@","a","c","m","e",".","c","o","m">>, <<>> >>,
            << <<"A","c","m","e"," ","C","o">>, <<"J","o","h","n"," ","S","m","i","t","h">>, <<"1","2","3"," ","E","l","m"," ","S","t"," ","H","o","u","s","t","o","n",","," ","T","X"," ","7","7","0","0","2">>,
               <<"(","5","5","5",")"," ","1","2","3","-","4","5","6","7">>, <<"j",".","s","m","i","t","h","+","h","o","a","@","a","c","m","e","-","m","g","m","t",".","c","o",".","u","k">>, <<"1","2","3","4","2">> >> >>

\* C5 as stated: the pipeline strategy returns no record for lengths below
\* 3 or above the longest known layout (4 for AAGO, 7 otherwise), and the
\* CSV-import strategy for every length other than 11, 6 or 7.
C5_Original ==
    (pc = "returned" /\ arg.kind = "row")
        => /\ (fn = "parse_row"
                 /\ (arg.n < 3 \/ arg.n > (IF arg.assoc = AAGO THEN 4 ELSE 7)))
                => result = <<>>
           /\ (fn = "import_parse_row" /\ arg.n \notin {11, 6, 7})
                => result = <<>>

\* C5, amended: the pipeline strategy returns no record exactly for the
\* RawRows of fewer than 3 fields (a longer row, also one longer than the
\* longest layout, gives one record, the extra fields ignored); the
\* CSV-import strategy returns no record for every length other than 11, 6
\* or 7.
C5_UnknownArityRejected ==
    (pc = "returned" /\ arg.kind = "row")
        => /\ fn = "parse_row"
                => Len(result) = (IF arg.n < 3 THEN 0 ELSE 1)
           /\ (fn = "import_parse_row" /\ arg.n \notin {11, 6, 7})
                => result = <<>>

\* both strategies have turned down a plausible row: the CSV strategy one
\* of 8 columns
C5_Witness ==
    /\ pc = "returned" /\ fn = "import_parse_row"
    /\ arg.kind = "row" /\ arg.n = 8 /\ arg.style = 1
    /\ result = <<>>

C7_Case(a) ==
    /\ a.kind = "address"
    /\ ~CountrySuffixPool[a.suffix].pair
    /\ Len(AddrTokens(a)) >= 4

C8_Remaining(a) ==
    LET t == AddrTokens(a)
    IN  IF CountrySuffixPool[a.suffix].pair THEN SubSeq(t, 1, Len(t) - 2) ELSE t

\* C8: parse_address never raises: it always returns four strings; when
\* fewer than 4 tokens are left after removing commas and dropping a
\* trailing country pair (UNITED/USA then STATES/AMERICA, in any case) it
\* returns the original input unchanged as street with city, state and zip
\* empty; for an empty or absent input it returns four empty strings.
C8_AddressDegrades ==
    pc = "returned"
        => /\ Len(result) = 4
           /\ arg.kind = "address_none" => result = << <<>>, <<>>, <<>>, <<>> >>
           /\ (arg.kind = "address" /\ Len(C8_Remaining(arg)) < 4)
                => result = << AddrText(arg), <<>>, <<>>, <<>> >>

\* three tokens and then "usa, AMERICA": five tokens before the pair goes
C8_Witness ==
    /\ pc = "returned" /\ fn = "import_parse_address"
    /\ arg.kind = "address" /\ arg.items = <<1, 2, 3>> /\ arg.suffix = 3
    /\ result[1] = AddrText(arg) /\ result[2] = <<>> /\ result[4] = <<>>

\* C9: the units normalization before every sink submission (clean_units,
\* and the inline conversion of import_csv_to_quickbase) never raises and
\* never returns a negative value: 0 when the raw value is absent, empty or
\* without a digit, otherwise the integer its digit characters form in
\* order ("1,234 units" gives 1234).
C9_UnitsNormalized ==
    (pc = "returned" /\ arg.kind = "units")
        => /\ result.t = "int"
           /\ result.n >= 0
           /\ (arg.value.t = "none" \/ \A k \in 1..Len(arg.value.s) :
                                          arg.value.s[k] \notin DigitChars)
                => result.n = 0
           /\ arg.example > 0 => result.n = UnitsExamples[arg.example].int

\* the units field of the record a strategy returned
C10_Units == IF fn = "parse_row" THEN result[1].Units ELSE result[1].units

C10_Expected ==
    IF arg.style = 2 THEN <<>>
    ELSE IF fn = "parse_row"
         THEN (IF arg.assoc # AAGO /\ arg.n >= 6 THEN <<"4","2">> ELSE <<>>)
    ELSE IF arg.n = 6 THEN <<"4","2"," ","u","n","i","t","s">>
    ELSE IF arg.n = 7 THEN <<"h","t","t","p","s",":","/","/","w","w","w",".","a","a","g","o",".","o","r","g","/","O","s","c","e","o","l","a","C","o","u","n","t","y","/","a","c","m","e">>
    ELSE <<"J","o","h","n"," ","S","m","i","t","h">>

C11_NoBlankNameSubmitted ==
    \A k \in 1..Len(posted) :
        posted[k].record["18"] # <<>> /\ posted[k].record["7"] # <<>>

\* C12: in the primary pipeline the association code is computed once per
\* document from the full text, selects the extraction mode, and is the
\* Association of every CanonicalRecord of the document: all records carry
\* the same non-empty code (a known code or "UNKNOWN"), also in the requests
\* that reach the sink (field 6).
C12_AssociationUniform ==
    /\ pc # "upload" => detected_assoc = ExpectedAssoc(doc)
    /\ pc = "mode_a" => ExpectedAssoc(doc) = AAGO
    /\ pc = "mode_b" => ExpectedAssoc(doc) # AAGO
    /\ \A k \in 1..Len(rows) :
          rows[k].Association = ExpectedAssoc(doc) /\ rows[k].Association # <<>>
    /\ \A k \in 1..Len(posted) : posted[k].record["6"] = ExpectedAssoc(doc)

\* a table without a header line: both records were sent as "UNKNOWN"
C12_Witness ==
    /\ pc = "sent"
    /\ doc.kind = "table" /\ doc.header = <<>>
    /\ Len(posted) = 2
    /\ posted[1].record["6"] = UNKNOWN /\ posted[2].record["6"] = UNKNOWN

\* C13: send_to_quickbase issues exactly one sink request per record, in
\* record order, whatever the statuses of the earlier responses: a
\* non-success response for a record never prevents the submission of the
\* records after it, and the results hold one entry (property, HTTP status,
\* response body) per record in the same order.
C13_OneRequestPerRecord ==
    pc \in {"sending", "sent"}
        => /\ Len(posted) = q - 1 /\ Len(results) = q - 1
           /\ pc = "sent" => Len(posted) = Len(rows)
           /\ \A k \in 1..Len(posted) :
                 /\ posted[k].record["18"] = rows[k].Company
                 /\ posted[k].record["7"] = rows[k].Property
                 /\ results[k] = [Property |-> rows[k].Property,
                                  Status |-> posted[k].resp.status_code,
                                  Response |-> posted[k].resp.text]

\* the first of two records was refused with 400 and the second was sent
C13_Witness ==
    /\ pc = "sent"
    /\ Len(rows) = 2 /\ Len(posted) = 2 /\ Len(results) = 2
    /\ posted[1].resp.status_code = 400
    /\ results[1].Status = 400 /\ results[2].Status = 200

\* the import has halted before the reader was exhausted
C14_Halted == pc \in {"import_stopped", "import_raised"}

\* C14: import_csv_to_quickbase halts at, and only at, the first record
\* whose submission returns a non-success status: no request follows a
\* non-success response, and the import of later rows is stopped by nothing
\* else (not by a success response, not by a row the normalizer rejects).
C14_HaltsOnlyOnFailedSubmission ==
    /\ \A k \in 1..(Len(posted) - 1) : posted[k].resp.status_code = 200
    /\ C14_Halted
         => posted # <<>> /\ posted[Len(posted)].resp.status_code # 200
    /\ (posted # <<>> /\ posted[Len(posted)].resp.status_code # 200)
         => C14_Halted

\* the lookup of the page failed: a call raised, or the browser was sent to
\* the login wall
C15_Failed(page) ==
    page.raises # "none" \/ Contains(lower(page.current_url), s_login)

\* C15: when an enrichment lookup for a record fails at any point
\* (navigation error, redirect to the login wall, error while reading the
\* page), the record's phone and email are both empty afterwards, the
\* failure stays inside the enrichment loop and every later record with a
\* profile URL is still looked up.
C15_FailedLookupLeavesBlank ==
    /\ \A k \in 1..Len(lookups) :
          C15_Failed(lookups[k].page)
              => /\ rows[lookups[k].row].Phone = <<>>
                 /\ rows[lookups[k].row].Email = <<>>
    /\ pc = "scrape"
          => Len(lookups) = Cardinality({k \in 1..(ei - 1) : rows[k].URL # <<>>})


(***************************************************************************)
(* Mode A on listings of any lines (SpecModeA).                           *)
(***************************************************************************)
\* the listing line read by the Mode-A step about to be taken: lines[1] is
\* the banner, lines[k + 1] is the k-th item of the listing
ListingLine == ListingPool[doc.items[i - 1]]

\* a Mode-A step that reads a line after the start banner has been seen
ModeAReads == pc = "mode_a" /\ i <= Len(lines) /\ i' = i + 1 /\ start_found

\* the line is one of the transitions of the buffer at length n: the street
\* at length 1, the city/state/zip at length 2, the finalize marker, a
\* repetition of the remembered name
Recognized(line, n) ==
    \/ line.marker
    \/ line.text = seen_name
    \/ n = 1 /\ line.digit
    \/ n = 2 /\ line.csz

\* C16: once the start banner has been seen, a line that matches none of the
\* recognized transitions while the buffer holds 1, 2 or 3 collected lines
\* resets the buffer to empty.
C16_UnrecognizedLineResets ==
    [][(ModeAReads /\ Len(current) \in 1..3 /\ ~Recognized(ListingLine, Len(current)))
          => current' = <<>>]_vars

\* C17: once the start banner has been seen, every line containing the
\* finalize marker phrase leaves the buffer empty whatever it held, and emits
\* a row (the first 3 collected lines plus the profile URL) if and only if
\* the buffer held at least 3 lines.
C17_MarkerAlwaysResets ==
    [][(ModeAReads /\ ListingLine.marker)
          => /\ current' = <<>>
             /\ detected_rows' =
                    IF Len(current) >= 3
                    THEN Append(detected_rows,
                                SubSeq(current, 1, 3)
                                    \o <<profile_url(county_dir, current[1])>>)
                    ELSE detected_rows]_vars

\* C18: once the start banner has been seen, a line equal to the most
\* recently collected name is skipped in every buffer state: the buffer, the
\* remembered name and the emitted rows are the same after it as before.
C18_RepeatedNameSkipped ==
    [][(ModeAReads /\ seen_name # None /\ ListingLine.text = seen_name)
          => UNCHANGED <<current, seen_name, detected_rows>>]_vars

\* the buffer after the step is the buffer before it with the line added
ListingLineAppended == current' = Append(current, ListingLine.text)

\* a Mode-A step that adds a line to a buffer of 1 or 2 collected lines
ModeAGrows ==
    /\ pc = "mode_a" /\ i <= Len(lines) /\ i' = i + 1
    /\ Len(current) \in {1, 2}
    /\ current' # current /\ current' # <<>>

\* C19: in Mode A the buffer grows only in the order name, street,
\* city/state/zip: every step leaves the buffer as it is, empties it or adds
\* the line read to fewer than 3 collected lines; a line is added to a buffer
\* of 1 line only when it starts with a digit (the street), and to a buffer
\* of 2 lines only when it holds a comma, optional spaces, a 2-letter state
\* code, optional spaces and a 5-digit zip (the city/state/zip).
C19_BufferGrowsInOrder ==
    [][/\ (pc = "mode_a" /\ i <= Len(lines) /\ i' = i + 1)
            => \/ current' = current
               \/ current' = <<>>
               \/ Len(current) <= 2 /\ ListingLineAppended
       /\ ModeAGrows
            => /\ start_found
               /\ ListingLineAppended
               /\ Len(current) = 1 => ListingLine.digit
               /\ Len(current) = 2 => ListingLine.csz]_vars

\* C19 as stated: the line added to a buffer of 1 line always starts with
\* digits followed by a space.
C19_Original ==
    [][ModeAGrows
            => /\ ListingLineAppended
               /\ Len(current) = 1 => ListingLine.digit_space
               /\ Len(current) = 2 => ListingLine.csz]_vars

\* a buffer of name, street and city/state/zip whose street starts with a
\* digit that no space follows
C19_Witness ==
    /\ pc = "mode_a" /\ doc.kind = "listing"
    /\ Len(current) = 3 /\ Len(doc.items) >= 3
    /\ current = <<ListingPool[doc.items[1]].text, ListingPool[doc.items[2]].text,
                   ListingPool[doc.items[3]].text>>
    /\ ListingPool[doc.items[2]].digit /\ ~ListingPool[doc.items[2]].digit_space
    /\ ListingPool[doc.items[3]].csz

(***************************************************************************)
(* Mode B on single-spaced lines (SpecModeB).                             *)
(***************************************************************************)
\* the line read by the Mode-B step about to be taken
CompactLine == CompactPool[doc.items[i]]

\* C20: in Mode B, a line whose text before the email has fewer than 4
\* fields by runs of whitespace and tabs, and that holds a phone-shaped
\* token, gives a row of [token 0, token 1, the tokens between index 2 and
\* the phone token joined by spaces, the phone token], the email and the
\* units digits; a line is dropped only when both methods give fewer than 4
\* fields.
C20_PhoneTokenFallback ==
    [][(pc = "mode_b" /\ i <= Len(lines) /\ i' = i + 1 /\ CompactLine.wide < 4)
          => detected_rows' =
                 IF CompactLine.fallback # <<>>
                 THEN Append(detected_rows,
                             CompactLine.fallback
                                 \o <<CompactLine.email, CompactLine.digits>>)
                 ELSE detected_rows]_vars

(***************************************************************************)
(* The phases of the upload handler (SpecSession).                        *)
(***************************************************************************)
\* classification, extraction and normalization are over
NormalizationDone ==
    /\ detected_assoc # None
    /\ i > Len(lines)
    /\ j > Len(detected_rows)
    /\ pc \notin {"upload", "call_extract", "mode_a", "mode_b", "extracted"}

\* the enrichment is over: it was skipped, it was given up at the login, or
\* its loop has passed the last record and the browser is gone
EnrichmentDone ==
    /\ driver # "open"
    /\ logged_in => ei > Len(rows)
    /\ pc \notin {"normalized", "login", "url_map", "scrape"}

\* C21: the phases are strictly ordered for each document: a lookup is made
\* only when classification, extraction and normalization of all rows are
\* over; lookups are made one record at a time in record order; a sink
\* request is sent only when the enrichment of all records is over, and once
\* a request has been sent neither the records nor the lookups change.
C21_PhasesOrdered ==
    [][/\ lookups' # lookups
            => /\ NormalizationDone
               /\ \E l \in [row : {ei}, url : {rows[ei].URL}, page : PagePool] :
                     lookups' = Append(lookups, l)
               /\ \A k \in 1..Len(lookups) : lookups[k].row < ei
               /\ posted = <<>> /\ posted' = <<>>
       /\ posted' # posted
            => /\ NormalizationDone
               /\ EnrichmentDone
               /\ Len(posted') = Len(posted) + 1
       /\ (posted # <<>> \/ posted' # <<>>)
            => /\ rows' = rows
               /\ lookups' = lookups
               /\ detected_rows' = detected_rows]_vars

\* two lookups were made, then a request was sent
C21_Witness ==
    /\ Len(lookups) >= 2
    /\ posted # <<>>
    /\ pc = "sending"

\* the positions inside the enrichment block, from `if detected_assoc ==
\* "AAGO" and rows:` to the end of `finally`
InEnrichment == {"normalized", "login", "url_map", "scrape"}

\* C22: the browser session is opened at most once per run, and every step
\* that leaves the enrichment block (the driver could not be created, the
\* login failed or raised, the profile loop ended, with or without a URL map
\* and failed lookups) leaves the driver quit if it was open and the profile
\* and cache directories removed if they were made; nothing reopens them.
C22_SessionReleased ==
    [][/\ (driver' = "open" /\ driver # "open")
            => driver = "none" /\ temp_dirs = "none" /\ pc = "normalized"
       /\ (pc \in InEnrichment /\ pc' \notin InEnrichment)
            => /\ driver' # "open"
               /\ driver = "open" => driver' = "quit"
               /\ temp_dirs' # "made"
               /\ temp_dirs' = "none" => (temp_dirs = "none" /\ driver' = "none")
       /\ pc \notin InEnrichment
            => driver' = driver /\ temp_dirs' = temp_dirs
       /\ driver = "quit" => driver' = "quit"
       /\ temp_dirs = "removed" => temp_dirs' = "removed"]_vars

\* the run has left the enrichment block after a lookup that failed: the
\* driver is quit and the directories are removed
C22_Witness ==
    /\ pc = "enriched"
    /\ driver = "quit" /\ temp_dirs = "removed"
    /\ \E k \in 1..Len(lookups) : lookups[k].page.raises = "get"

\* the records as the normalizer produces them from the extracted rows
NormalizerOutput ==
    Flatten([k \in 1..Len(detected_rows) |-> parse_row(detected_rows[k], detected_assoc)])

\* every record that no lookup was made for has the phone and the email
\* the normalizer gave it
NoLookupNoChange ==
    LET out == NormalizerOutput
    IN  /\ Len(rows) = Len(out)
        /\ \A k \in 1..Len(rows) :
              (\A n \in 1..Len(lookups) : lookups[n].row # k)
                 => /\ rows[k].Phone = out[k].Phone
                    /\ rows[k].Email = out[k].Email

\* C23: a lookup is made only when the association is AAGO and there is at
\* least one record, only after a login that succeeded, and only for a
\* record whose profile URL is not empty; for every other document no
\* browser is started and no lookup is made, and every record without a
\* lookup keeps the phone and the email the normalizer gave it.
C23_LookupsGated ==
    /\ \A n \in 1..Len(lookups) :
          /\ detected_assoc = AAGO /\ rows # <<>>
          /\ logged_in /\ driver \in {"open", "quit"}
          /\ lookups[n].row \in 1..Len(rows)
          /\ lookups[n].url # <<>>
          /\ lookups[n].url = rows[lookups[n].row].URL
    /\ (detected_assoc # AAGO \/ (NormalizationDone /\ rows = <<>>))
          => driver = "none" /\ lookups = <<>>
    /\ NormalizationDone => NoLookupNoChange

\* the enrichment of an AAGO document is over: one record was looked up and
\* another, without a profile URL, was not
C23_Witness ==
    /\ pc = "enriched" /\ detected_assoc = AAGO
    /\ lookups # <<>>
    /\ \E k \in 1..Len(rows) :
          /\ rows[k].URL = <<>>
          /\ \A n \in 1..Len(lookups) : lookups[n].row # k

(***************************************************************************)
(* The normalizer on the rows of the extractor (Spec).                    *)
(***************************************************************************)
\* the lengths of the rows the extractor gives for the association
RawRowLengths == IF detected_assoc = AAGO THEN {3, 4} ELSE {6}

\* C24: the normalizer never rejects a row of the extractor: every row of
\* extract_table_rows (length 3 or 4 in Mode A, 6 in Mode B) gives one
\* record, added after the records of the rows before it, so that at the end
\* there are as many records as rows, in the order of the extraction.
C24_NoExtractedRowRejected ==
    [][/\ (pc = "extracted" /\ j <= Len(detected_rows) /\ j' = j + 1)
            => /\ Len(detected_rows[j]) \in RawRowLengths
               /\ Len(rows) = j - 1
               /\ Len(rows') = j
               /\ SubSeq(rows', 1, j - 1) = rows
               /\ <<rows'[j]>> = parse_row(detected_rows[j], detected_assoc)
               /\ rows'[j].Company = strip(detected_rows[j][1])
       /\ pc' = "normalized"
            => Len(rows') = Len(detected_rows')]_vars

\* a document whose rows of length 4 and of length 3 have all become
\* records: an AAGO listing with a last block without marker
C24_Witness ==
    /\ pc = "normalized"
    /\ Len(rows) >= 2 /\ Len(rows) = Len(detected_rows)
    /\ Len(detected_rows[1]) = 4
    /\ Len(detected_rows[Len(detected_rows)]) = 3

(***************************************************************************)
(* The rows of Mode A (SpecExtract).                                      *)
(***************************************************************************)
\* C25: in Mode A the buffer never holds more than 3 collected lines between
\* input lines; every emitted row has length 4 (three lines and the profile
\* URL built from the first) or length 3 (no URL); a row of length 3 is only
\* emitted by the flush at the end of the input, so it can only be the last
\* row and at most one row of a document lacks a profile URL.
C25_ModeARowShapes ==
    (detected_assoc = AAGO /\ pc \in {"mode_a", "extracted"})
       => /\ Len(current) <= 3
          /\ \A k \in 1..Len(detected_rows) :
                /\ Len(detected_rows[k]) \in {3, 4}
                /\ Len(detected_rows[k]) = 4
                      => detected_rows[k][4]
                            = profile_url(county_dir, detected_rows[k][1])
                /\ Len(detected_rows[k]) = 3
                      => /\ k = Len(detected_rows)
                         /\ pc = "extracted"
                         /\ detected_rows[k] = current

\* the extraction is over and gave a row of length 4 and, last, one of
\* length 3
C25_Witness ==
    /\ detected_assoc = AAGO /\ pc = "extracted"
    /\ Len(detected_rows) >= 2
    /\ Len(detected_rows[1]) = 4
    /\ Len(detected_rows[Len(detected_rows)]) = 3
    /\ Len(current) = 3
====
